---------------------------- MODULE Spec2Model ----------------------------
(***************************************************************************)
(* Order placement of the vendor-order-system: OrdersService.create and    *)
(* the ProductsService primitives it calls, running as concurrent request  *)
(* handlers against one MongoDB deployment.                                *)
(*                                                                         *)
(* Storage semantics (MongoDB multi-document transactions):                *)
(*  - operations that pass {session} write to the transaction's private    *)
(*    buffer and read the transaction's snapshot (taken at the first       *)
(*    operation of the transaction) overlaid with its own writes;          *)
(*  - operations without a session read the committed collections;         *)
(*  - a transactional write to a document that another open transaction    *)
(*    has written, or that was committed after the writer's snapshot,      *)
(*    fails with a WriteConflict server error;                             *)
(*  - commitTransaction publishes the buffer in one step, abortTransaction *)
(*    discards it.                                                         *)
(*                                                                         *)
(* Prices are whole numbers of minor currency units; rounding of binary    *)
(* floating point numbers is outside this model.                           *)
(***************************************************************************)
EXTENDS Integers, Sequences, FiniteSets, TLC

\* ------------------------------------------------------------------ bounds
MaxQty == 2
MaxCart == 2

\* --------------------------------------------------------------- constants
CUSTOMER == "customer"
VENDOR == "vendor"
ADMIN == "admin"
UserRole == {CUSTOMER, VENDOR, ADMIN}

PENDING == "pending"
PROCESSING == "processing"
SHIPPED == "shipped"
DELIVERED == "delivered"
CANCELLED == "cancelled"
OrderStatus == {PENDING, PROCESSING, SHIPPED, DELIVERED, CANCELLED}

\* Request handlers that run OrdersService.create concurrently.
Procs == {"r1", "r2"}

\* Principals resolved by the auth layer, and the principals whose requests
\* each handler serves.
Users ==
  { [_id |-> "u1", role |-> CUSTOMER],
    [_id |-> "u2", role |-> CUSTOMER],
    [_id |-> "V1", role |-> VENDOR],
    [_id |-> "V2", role |-> VENDOR],
    [_id |-> "ad", role |-> ADMIN] }
Callers(p) ==
  IF p = "r1" THEN {u \in Users : u._id \in {"u1", "V1"}}
              ELSE {u \in Users : u._id \in {"u2", "ad"}}

\* Ids of the product documents of the catalog, and an id naming no document.
ProductIds == {"A", "B", "C"}
RequestIds == ProductIds \cup {"X"}

\* The product collection when the first request arrives.
InitProducts ==
  [ id \in ProductIds |->
      CASE id = "A" -> [_id |-> "A", name |-> "a", price |-> 10, stock |-> 2, vendorId |-> "V1"]
        [] id = "B" -> [_id |-> "B", name |-> "b", price |-> 20, stock |-> 1, vendorId |-> "V2"]
        [] id = "C" -> [_id |-> "C", name |-> "c", price |-> 5, stock |-> 1, vendorId |-> "V1"] ]

\* OrderItemDto and CreateOrderDto.items.
OrderItemDto == [productId : RequestIds, quantity : 1..MaxQty]

RECURSIVE SeqsUpTo(_, _)
SeqsUpTo(S, n) ==
  IF n = 0 THEN {<<>>}
  ELSE LET shorter == SeqsUpTo(S, n - 1)
       IN  shorter \cup {Append(s, x) : s \in {t \in shorter : Len(t) = n - 1}, x \in S}

CreateOrderDto == SeqsUpTo(OrderItemDto, MaxCart)

\* The carts each handler is sent: r1 places any cart of up to MaxCart lines,
\* r2 races it with any cart of one line.
CartsOf(p) == IF p = "r1" THEN CreateOrderDto ELSE {items \in CreateOrderDto : Len(items) = 1}

\* ObjectIds are generated by the client when a document is constructed.
OrderId(p) == [kind |-> "order", proc |-> p, n |-> 0]
SubOrderId(p, k) == [kind |-> "subOrder", proc |-> p, n |-> k]

\* ------------------------------------------------------------------- state
VARIABLES
  products,   \* committed Product collection: _id -> document
  orders,     \* committed Order collection: _id -> document
  subOrders,  \* committed SubOrder collection: _id -> document
  pc,         \* position of each handler inside create
  req,        \* arguments of the call: [user, items]
  loc,        \* local variables of the call
  tx,         \* the session's transaction
  res,        \* outcome delivered to the caller
  upc,        \* position of each handler inside updateOrderStatus
  ureq,       \* arguments of the call: [id, status, user]
  uloc,       \* local variables of the call
  ures,       \* outcome delivered to the caller of updateOrderStatus
  qpc,        \* position of the handler that serves the remaining routes
  qreq,       \* arguments of its call
  qloc,       \* local variables of its call
  qres        \* outcome delivered to its caller

vars == <<products, orders, subOrders, pc, req, loc, tx, res, upc, ureq, uloc, ures,
          qpc, qreq, qloc, qres>>
store == <<products, orders, subOrders>>
placement == <<pc, req, loc, tx, res>>
statusUpdate == <<upc, ureq, uloc, ures>>
otherRoutes == <<qpc, qreq, qloc, qres>>

EmptyFn == [x \in {} |-> x]

\* What an exception tells the caller: the kind of message and the values it
\* names.
Err(msg, ids, name, available, requested) ==
  [msg |-> msg, ids |-> ids, name |-> name, available |-> available, requested |-> requested]
NoDetail == Err("none", <<>>, "none", 0, 0)

NoLoc ==
  [ productMap |-> EmptyFn, orderItems |-> <<>>, vendorItems |-> <<>>,
    totalAmount |-> 0, stockUpdates |-> <<>>, order |-> EmptyFn,
    subOrderIds |-> <<>>, i |-> 1, error |-> "none", detail |-> NoDetail ]

NoTx ==
  [ session |-> "none", state |-> "none", started |-> FALSE, snap |-> EmptyFn, stale |-> {},
    orders |-> EmptyFn, subOrders |-> EmptyFn, products |-> EmptyFn ]

NoRes == [status |-> "none", detail |-> NoDetail]

NoReq == [user |-> [_id |-> "none", role |-> "none"], items |-> <<>>]

\* Request handlers that run OrdersService.updateOrderStatus concurrently.
StatusProcs == {"s1", "s2"}

\* An ObjectId naming no document of any collection.
MissingId == [kind |-> "none", proc |-> "none", n |-> 0]

NoDoc == [_id |-> MissingId, status |-> "none"]
NoUReq == [id |-> MissingId, status |-> "none", user |-> [_id |-> "none", role |-> "none"]]
NoULoc == [order |-> NoDoc, subOrder |-> NoDoc, parentOrder |-> NoDoc, ids |-> <<>>]
NoURes == [status |-> "none", returned |-> MissingId, message |-> "none"]
NoQuery == [status |-> "none", vendorId |-> "none"]
\* An optional number that the request leaves out (the dto admits none below 0).
Absent == -1
NoUpdateProductDto == [name |-> "none", price |-> Absent, stock |-> Absent]
NoQReq ==
  [route |-> "none", id |-> MissingId, user |-> [_id |-> "none", role |-> "none"],
   query |-> NoQuery, productId |-> "none", dto |-> NoUpdateProductDto]
NoQRes == [status |-> "none", model |-> "none", returned |-> NoDoc]

Init ==
  /\ products = InitProducts
  /\ orders = EmptyFn
  /\ subOrders = EmptyFn
  /\ pc = [p \in Procs |-> "idle"]
  /\ req = [p \in Procs |-> NoReq]
  /\ loc = [p \in Procs |-> NoLoc]
  /\ tx = [p \in Procs |-> NoTx]
  /\ res = [p \in Procs |-> NoRes]
  /\ upc = [h \in StatusProcs |-> "idle"]
  /\ ureq = [h \in StatusProcs |-> NoUReq]
  /\ uloc = [h \in StatusProcs |-> NoULoc]
  /\ ures = [h \in StatusProcs |-> NoURes]
  /\ qpc = "idle"
  /\ qreq = NoQReq
  /\ qloc = NoDoc
  /\ qres = NoQRes

\* ------------------------------------------------------ function utilities
Put(f, k, v) == [x \in DOMAIN f \cup {k} |-> IF x = k THEN v ELSE f[x]]
Merge(f, g) == [x \in DOMAIN f \cup DOMAIN g |-> IF x \in DOMAIN g THEN g[x] ELSE f[x]]

RECURSIVE SumSeq(_)
SumSeq(s) == IF s = <<>> THEN 0 ELSE Head(s) + SumSeq(Tail(s))


\* ------------------------------------------------ ProductsService (part_003)
\* Variant: the query omits stock: {$gt: 0}.
getProductsInStock_any(coll, ids) ==
  {coll[id] : id \in {x \in DOMAIN coll : x \in ids}}

\* find({_id: {$in: ids}, stock: {$gt: 0}}) on the collection coll.
getProductsInStock(coll, ids) ==
  {coll[id] : id \in {x \in DOMAIN coll : x \in ids /\ coll[x].stock > 0}}

\* Variant: a read inside the transaction sees the snapshot without the
\* transaction's own writes.
TxView_snapshotOnly(t) == t.snap

\* The documents a transaction sees: its snapshot overlaid with its own writes.
TxView(t) == Merge(t.snap, t.products)

\* Variant: the update is {$inc: {stock: -1}}.
decrementStock_byOne(view, productId, quantity) ==
  IF productId \in DOMAIN view /\ view[productId].stock >= quantity
    THEN [view[productId] EXCEPT !.stock = @ - 1]
    ELSE [_id |-> "null"]

\* Variant: the filter omits stock: {$gte: quantity}.
decrementStock_unconditional(view, productId, quantity) ==
  IF productId \in DOMAIN view
    THEN [view[productId] EXCEPT !.stock = @ - quantity]
    ELSE [_id |-> "null"]

\* findOneAndUpdate({_id, stock: {$gte: quantity}}, {$inc: {stock: -quantity}},
\* {new: true}) evaluated on the documents view: the updated document, or
\* null when no document matches the filter.
Null == [_id |-> "null"]
decrementStock(view, productId, quantity) ==
  IF productId \in DOMAIN view /\ view[productId].stock >= quantity
    THEN [view[productId] EXCEPT !.stock = @ - quantity]
    ELSE Null

\* Variant: the storage engine detects no conflict between transactions.
WriteConflict_none(p, id) == FALSE

\* A transactional write of p to product id conflicts when another open
\* transaction has written the document or when the document was committed
\* after p's snapshot was taken.
WriteConflict(p, id) ==
  \/ id \in tx[p].stale
  \/ \E q \in Procs \ {p} : tx[q].state = "active" /\ id \in DOMAIN tx[q].products

\* ---------------------------------------------------- errors and outcomes
Throw(p, error, detail) ==
  /\ loc' = [loc EXCEPT ![p].error = error, ![p].detail = detail]
  /\ pc' = [pc EXCEPT ![p] = "catch"]

\* ------------------------------------------------- OrdersService.create
\* Lines 116-118: productMap keyed by _id.
productMapOf(found) == [id \in {d._id : d \in found} |-> CHOOSE d \in found : d._id = id]

\* Line 109: createOrderDto.items.map((item) => item.productId).
productIdsOf(items) == [k \in 1..Len(items) |-> items[k].productId]

\* Line 121: the requested ids without an entry in productMap, in cart order.
missingProducts(productIds, productMap) ==
  SelectSeq(productIds, LAMBDA id : id \notin DOMAIN productMap)

\* Variant: the scan keeps the last item that asks for too much.
RECURSIVE firstInsufficient_last(_, _, _)
firstInsufficient_last(items, productMap, k) ==
  IF k > Len(items) THEN 0
  ELSE LET later == firstInsufficient_last(items, productMap, k + 1)
       IN  IF later > 0 THEN later
           ELSE IF productMap[items[k].productId].stock < items[k].quantity THEN k
           ELSE 0

\* Lines 129-140: index of the first item asking for more than the product's
\* stock; 0 when every item passes.
RECURSIVE firstInsufficient(_, _, _)
firstInsufficient(items, productMap, k) ==
  IF k > Len(items) THEN 0
  ELSE IF productMap[items[k].productId].stock < items[k].quantity THEN k
  ELSE firstInsufficient(items, productMap, k + 1)

\* Position of vendorId among the keys of the vendorItems map; 0 when absent.
vendorIndex(vendorItems, vendorId) ==
  IF \E k \in 1..Len(vendorItems) : vendorItems[k].vendorId = vendorId
    THEN CHOOSE k \in 1..Len(vendorItems) : vendorItems[k].vendorId = vendorId
    ELSE 0

\* Variant: every item opens a new entry, whether or not the vendor has one.
vendorItemsPush_alwaysNew(vendorItems, vendorId, orderItem) ==
  Append(vendorItems, [vendorId |-> vendorId, items |-> <<orderItem>>])

\* Variant: the entry of a new vendor is put before the entries there are.
vendorItemsPush_newFirst(vendorItems, vendorId, orderItem) ==
  LET withKey == IF vendorIndex(vendorItems, vendorId) = 0
                   THEN <<[vendorId |-> vendorId, items |-> <<>>]>> \o vendorItems
                   ELSE vendorItems
      k == vendorIndex(withKey, vendorId)
  IN  [withKey EXCEPT ![k].items = Append(@, orderItem)]

\* Lines 170-177: vendorItems.get(vendorId).push(orderItem), creating the
\* entry at the end of the map when the vendor is new.
vendorItemsPush(vendorItems, vendorId, orderItem) ==
  LET withKey == IF vendorIndex(vendorItems, vendorId) = 0
                   THEN Append(vendorItems, [vendorId |-> vendorId, items |-> <<>>])
                   ELSE vendorItems
      k == vendorIndex(withKey, vendorId)
  IN  [withKey EXCEPT ![k].items = Append(@, orderItem)]

\* Lines 150-184: one pass over the cart building orderItems, vendorItems,
\* totalAmount and stockUpdates.
RECURSIVE processItems(_, _, _)
processItems(items, productMap, acc) ==
  IF items = <<>> THEN acc
  ELSE
    LET item == Head(items)
        product == productMap[item.productId]
        orderItem == [productId |-> item.productId, name |-> product.name,
                      price |-> product.price, quantity |-> item.quantity,
                      vendorId |-> product.vendorId]
    IN  processItems(Tail(items), productMap,
          [ orderItems |-> Append(acc.orderItems, orderItem),
            vendorItems |-> vendorItemsPush(acc.vendorItems, product.vendorId, orderItem),
            totalAmount |-> acc.totalAmount + product.price * item.quantity,
            stockUpdates |-> Append(acc.stockUpdates,
                               [productId |-> item.productId, quantity |-> item.quantity]) ])

\* Variant: the reducer adds item.price without the quantity.
RECURSIVE subOrderAmount_noQuantity(_)
subOrderAmount_noQuantity(items) ==
  IF items = <<>> THEN 0
  ELSE subOrderAmount_noQuantity(SubSeq(items, 1, Len(items) - 1)) + items[Len(items)].price

\* Lines 206-209: items.reduce((sum, item) => sum + item.price * item.quantity, 0).
RECURSIVE subOrderAmount(_)
subOrderAmount(items) ==
  IF items = <<>> THEN 0
  ELSE subOrderAmount(SubSeq(items, 1, Len(items) - 1))
         + items[Len(items)].price * items[Len(items)].quantity

\* Variant: the session is started for every caller, whatever the role.
create_begin_noRoleCheck(p) ==
  /\ pc[p] = "idle"
  /\ \E user \in Callers(p), items \in CartsOf(p) :
       /\ req' = [req EXCEPT ![p] = [user |-> user, items |-> items]]
       /\ tx' = [tx EXCEPT ![p].session = "open", ![p].state = "active"]
       /\ pc' = [pc EXCEPT ![p] = "fetch"]
       /\ res' = res
  /\ UNCHANGED <<store, loc, statusUpdate, otherRoutes>>

\* Lines 97-103: role check, startSession, startTransaction.
create_begin(p) ==
  /\ pc[p] = "idle"
  /\ \E user \in Callers(p), items \in CartsOf(p) :
       /\ req' = [req EXCEPT ![p] = [user |-> user, items |-> items]]
       /\ IF user.role # CUSTOMER
            THEN /\ res' = [res EXCEPT ![p] =
                             [status |-> "ForbiddenException", detail |-> NoDetail]]
                 /\ pc' = [pc EXCEPT ![p] = "done"]
                 /\ tx' = tx
            ELSE /\ tx' = [tx EXCEPT ![p].session = "open", ![p].state = "active"]
                 /\ pc' = [pc EXCEPT ![p] = "fetch"]
                 /\ res' = res
  /\ UNCHANGED <<store, loc, statusUpdate, otherRoutes>>

\* Lines 108-195: read the products in stock (no session: committed data),
\* check for missing products, validate quantities, group by vendor and build
\* the order document.
create_fetch(p) ==
  /\ pc[p] = "fetch"
  /\ LET items == req[p].items
         productIds == productIdsOf(items)
         found == getProductsInStock(products, {productIds[k] : k \in 1..Len(productIds)})
         productMap == productMapOf(found)
         missing == missingProducts(productIds, productMap)
     IN
       IF Len(missing) > 0
         THEN /\ loc' = [loc EXCEPT ![p].productMap = productMap,
                                    ![p].error = "BadRequestException",
                                    ![p].detail = Err("ProductUnavailable", missing, "none", 0, 0)]
              /\ pc' = [pc EXCEPT ![p] = "catch"]
         ELSE
           LET k == firstInsufficient(items, productMap, 1) IN
             IF k > 0
               THEN /\ loc' = [loc EXCEPT ![p].productMap = productMap,
                                          ![p].error = "BadRequestException",
                                          ![p].detail =
                                             Err("InsufficientStock", <<>>,
                                                 productMap[items[k].productId].name,
                                                 productMap[items[k].productId].stock,
                                                 items[k].quantity)]
                    /\ pc' = [pc EXCEPT ![p] = "catch"]
               ELSE
                 LET acc == processItems(items, productMap,
                              [orderItems |-> <<>>, vendorItems |-> <<>>,
                               totalAmount |-> 0, stockUpdates |-> <<>>])
                     order == [_id |-> OrderId(p), customerId |-> req[p].user._id,
                               items |-> acc.orderItems, totalAmount |-> acc.totalAmount,
                               status |-> PENDING, subOrders |-> <<>>]
                 IN  /\ loc' = [loc EXCEPT ![p].productMap = productMap,
                                           ![p].orderItems = acc.orderItems,
                                           ![p].vendorItems = acc.vendorItems,
                                           ![p].totalAmount = acc.totalAmount,
                                           ![p].stockUpdates = acc.stockUpdates,
                                           ![p].order = order]
                     /\ pc' = [pc EXCEPT ![p] = "saveOrder"]
  /\ UNCHANGED <<store, req, tx, res, statusUpdate, otherRoutes>>

\* The first operation of a transaction takes its snapshot.
TxTouch(t) ==
  IF t.started THEN t
  ELSE [t EXCEPT !.started = TRUE, !.snap = products, !.stale = {}]

\* Variant: order.save() without the session writes the committed collection.
create_saveOrder_noSession(p) ==
  /\ pc[p] = "saveOrder"
  /\ tx' = [tx EXCEPT ![p] = TxTouch(@)]
  /\ orders' = Put(orders, loc[p].order._id, loc[p].order)
  /\ loc' = [loc EXCEPT ![p].i = 1]
  /\ pc' = [pc EXCEPT ![p] = IF Len(loc[p].vendorItems) = 0 THEN "saveRefs" ELSE "saveSub"]
  /\ UNCHANGED <<products, subOrders, req, res, statusUpdate, otherRoutes>>

\* Line 197: order.save({session}).
create_saveOrder(p) ==
  /\ pc[p] = "saveOrder"
  /\ tx' = [tx EXCEPT ![p] =
              [TxTouch(@) EXCEPT !.orders = Put(@, loc[p].order._id, loc[p].order)]]
  /\ loc' = [loc EXCEPT ![p].i = 1]
  /\ pc' = [pc EXCEPT ![p] = IF Len(loc[p].vendorItems) = 0 THEN "saveRefs" ELSE "saveSub"]
  /\ UNCHANGED <<store, req, res, statusUpdate, otherRoutes>>

\* Variant: subOrder.save() runs without the session.
create_saveSubOrder_noSession(p) ==
  /\ pc[p] = "saveSub"
  /\ LET entry == loc[p].vendorItems[loc[p].i]
         subOrder == [_id |-> SubOrderId(p, loc[p].i),
                      parentOrderId |-> loc[p].order._id,
                      vendorId |-> entry.vendorId,
                      items |-> entry.items,
                      amount |-> subOrderAmount(entry.items),
                      status |-> PENDING]
     IN  /\ subOrders' = Put(subOrders, subOrder._id, subOrder)
         /\ loc' = [loc EXCEPT ![p].subOrderIds = Append(@, subOrder._id),
                               ![p].i = @ + 1]
         /\ pc' = [pc EXCEPT ![p] =
                     IF loc[p].i = Len(loc[p].vendorItems) THEN "saveRefs" ELSE "saveSub"]
  /\ UNCHANGED <<products, orders, req, res, tx, statusUpdate, otherRoutes>>

\* Lines 204-223, one iteration: build and save the sub-order of the i-th
\* vendor of vendorItems.
create_saveSubOrder(p) ==
  /\ pc[p] = "saveSub"
  /\ LET entry == loc[p].vendorItems[loc[p].i]
         subOrder == [_id |-> SubOrderId(p, loc[p].i),
                      parentOrderId |-> loc[p].order._id,
                      vendorId |-> entry.vendorId,
                      items |-> entry.items,
                      amount |-> subOrderAmount(entry.items),
                      status |-> PENDING]
     IN  /\ tx' = [tx EXCEPT ![p].subOrders = Put(@, subOrder._id, subOrder)]
         /\ loc' = [loc EXCEPT ![p].subOrderIds = Append(@, subOrder._id),
                               ![p].i = @ + 1]
         /\ pc' = [pc EXCEPT ![p] =
                     IF loc[p].i = Len(loc[p].vendorItems) THEN "saveRefs" ELSE "saveSub"]
  /\ UNCHANGED <<store, req, res, statusUpdate, otherRoutes>>

\* Variant: the second order.save() runs without the session.
create_saveRefs_noSession(p) ==
  /\ pc[p] = "saveRefs"
  /\ LET order == [loc[p].order EXCEPT !.subOrders = loc[p].subOrderIds]
     IN  /\ loc' = [loc EXCEPT ![p].order = order, ![p].i = 1]
         /\ orders' = Put(orders, order._id, order)
  /\ pc' = [pc EXCEPT ![p] = IF Len(loc[p].stockUpdates) = 0 THEN "commit" ELSE "decr"]
  /\ UNCHANGED <<products, subOrders, req, res, tx, statusUpdate, otherRoutes>>

\* Lines 226-227: order.subOrders = subOrderIds; order.save({session}).
create_saveRefs(p) ==
  /\ pc[p] = "saveRefs"
  /\ LET order == [loc[p].order EXCEPT !.subOrders = loc[p].subOrderIds]
     IN  /\ loc' = [loc EXCEPT ![p].order = order, ![p].i = 1]
         /\ tx' = [tx EXCEPT ![p].orders = Put(@, order._id, order)]
  /\ pc' = [pc EXCEPT ![p] = IF Len(loc[p].stockUpdates) = 0 THEN "commit" ELSE "decr"]
  /\ UNCHANGED <<store, req, res, statusUpdate, otherRoutes>>

\* Lines 232-239, one iteration: decrementStock(productId, quantity, session).
create_decrementStock(p) ==
  /\ pc[p] = "decr"
  /\ LET update == loc[p].stockUpdates[loc[p].i]
         product == decrementStock(TxView(tx[p]), update.productId, update.quantity)
     IN
       IF product = Null
         THEN /\ Throw(p, "BadRequestException",
                       Err("ReserveFailed", <<update.productId>>, "none", 0, update.quantity))
              /\ tx' = tx
         ELSE IF WriteConflict(p, update.productId)
           THEN /\ Throw(p, "MongoServerError",
                         Err("WriteConflict", <<update.productId>>, "none", 0, update.quantity))
                /\ tx' = tx
           ELSE /\ tx' = [tx EXCEPT ![p].products = Put(@, update.productId, product)]
                /\ loc' = [loc EXCEPT ![p].i = @ + 1]
                /\ pc' = [pc EXCEPT ![p] =
                            IF loc[p].i = Len(loc[p].stockUpdates) THEN "commit" ELSE "decr"]
  /\ UNCHANGED <<store, req, res, statusUpdate, otherRoutes>>

\* Lines 257-259: the finally block, session.endSession().
endSession(t) == [t EXCEPT !.session = "ended"]

\* Lines 241-243 and 257-259: commitTransaction publishes the buffered writes;
\* the call returns the order and the session ends.
create_commit(p) ==
  /\ pc[p] = "commit"
  /\ products' = Merge(products, tx[p].products)
  /\ orders' = Merge(orders, tx[p].orders)
  /\ subOrders' = Merge(subOrders, tx[p].subOrders)
  /\ tx' = [q \in Procs |->
              IF q = p THEN endSession([NoTx EXCEPT !.state = "committed"])
              ELSE IF tx[q].state = "active" /\ tx[q].started
                THEN [tx[q] EXCEPT !.stale = @ \cup DOMAIN tx[p].products]
                ELSE tx[q]]
  /\ res' = [res EXCEPT ![p] = [status |-> "ok", detail |-> NoDetail]]
  /\ loc' = [loc EXCEPT ![p] = NoLoc]
  /\ pc' = [pc EXCEPT ![p] = "done"]
  /\ UNCHANGED <<req, statusUpdate, otherRoutes>>

\* A storage operation of the try block fails for a reason of the
\* infrastructure (network, server) and throws a driver error.
StoragePoints == {"fetch", "saveOrder", "saveSub", "saveRefs", "decr", "commit"}
storageFailure(p) ==
  /\ pc[p] \in StoragePoints
  /\ Throw(p, "MongoNetworkError", Err("StorageFailure", <<>>, "none", 0, 0))
  /\ UNCHANGED <<store, req, tx, res, statusUpdate, otherRoutes>>

\* Variant: the catch block does not end the transaction.
abortTransaction_none(t) == t

\* session.abortTransaction(): the buffered writes and the snapshot are dropped.
abortTransaction(t) == [NoTx EXCEPT !.state = "aborted"]

\* Lines 247-256: the exceptions rethrown as they are; anything else becomes
\* InternalServerErrorException.
classify(error) ==
  IF error \in {"BadRequestException", "ForbiddenException", "NotFoundException"}
    THEN error
    ELSE "InternalServerErrorException"

\* Lines 244-259: catch and finally.
create_catch(p) ==
  /\ pc[p] = "catch"
  /\ tx' = [tx EXCEPT ![p] = endSession(abortTransaction(@))]
  /\ res' = [res EXCEPT ![p] = [status |-> classify(loc[p].error), detail |-> loc[p].detail]]
  /\ loc' = [loc EXCEPT ![p] = NoLoc]
  /\ pc' = [pc EXCEPT ![p] = "done"]
  /\ UNCHANGED <<store, req, statusUpdate, otherRoutes>>

Next ==
  \E p \in Procs :
    \/ create_begin(p)
    \/ create_fetch(p)
    \/ create_saveOrder(p)
    \/ create_saveSubOrder(p)
    \/ create_saveRefs(p)
    \/ create_decrementStock(p)
    \/ create_commit(p)
    \/ storageFailure(p)
    \/ create_catch(p)

Spec == Init /\ [][Next]_vars

\* ------------------------------------- OrdersService.updateOrderStatus
\* The carts whose placements created the orders that the status updates
\* work on: r1's cart spans the vendors V1 and V2, r2's cart has one line.
PlacedCart(p) ==
  IF p = "r1" THEN << [productId |-> "A", quantity |-> 1], [productId |-> "B", quantity |-> 1] >>
              ELSE << [productId |-> "C", quantity |-> 1] >>
PlacedBy(p) == CHOOSE u \in Users : u._id = (IF p = "r1" THEN "u1" ELSE "u2")

\* What create computes for PlacedCart(p) from the initial catalog.
PlacedAcc(p) ==
  processItems(PlacedCart(p), productMapOf({InitProducts[id] : id \in ProductIds}),
               [orderItems |-> <<>>, vendorItems |-> <<>>, totalAmount |-> 0,
                stockUpdates |-> <<>>])
PlacedOrder(p) ==
  [ _id |-> OrderId(p), customerId |-> PlacedBy(p)._id, items |-> PlacedAcc(p).orderItems,
    totalAmount |-> PlacedAcc(p).totalAmount, status |-> PENDING,
    subOrders |-> [k \in 1..Len(PlacedAcc(p).vendorItems) |-> SubOrderId(p, k)] ]
PlacedSubOrder(p, k) ==
  [ _id |-> SubOrderId(p, k), parentOrderId |-> OrderId(p),
    vendorId |-> PlacedAcc(p).vendorItems[k].vendorId,
    items |-> PlacedAcc(p).vendorItems[k].items,
    amount |-> subOrderAmount(PlacedAcc(p).vendorItems[k].items), status |-> PENDING ]
PlacedSubOrderIds == {SubOrderId(p, k) : p \in Procs, k \in 1..2} \ {SubOrderId("r2", 2)}

\* The state after both placements have committed.
Placed ==
  /\ products = [id \in ProductIds |-> [InitProducts[id] EXCEPT !.stock = @ - 1]]
  /\ orders = [id \in {OrderId(p) : p \in Procs} |-> PlacedOrder(id.proc)]
  /\ subOrders = [id \in PlacedSubOrderIds |-> PlacedSubOrder(id.proc, id.n)]
  /\ pc = [p \in Procs |-> "done"]
  /\ req = [p \in Procs |-> [user |-> PlacedBy(p), items |-> PlacedCart(p)]]
  /\ loc = [p \in Procs |-> NoLoc]
  /\ tx = [p \in Procs |-> endSession([NoTx EXCEPT !.state = "committed"])]
  /\ res = [p \in Procs |-> [status |-> "ok", detail |-> NoDetail]]

InitStatus ==
  /\ Placed
  /\ upc = [h \in StatusProcs |-> "idle"]
  /\ ureq = [h \in StatusProcs |-> NoUReq]
  /\ uloc = [h \in StatusProcs |-> NoULoc]
  /\ ures = [h \in StatusProcs |-> NoURes]
  /\ qpc = "idle"
  /\ qreq = NoQReq
  /\ qloc = NoDoc
  /\ qres = NoQRes

\* Variant: the route names every role.
updateStatus_Roles_every == {ADMIN, VENDOR, CUSTOMER}

\* Controller line 45: @Roles(UserRole.ADMIN, UserRole.VENDOR).
updateStatus_Roles == {ADMIN, VENDOR}

\* Controller line 44: the guard lets a request through when the principal's
\* role is one of the roles the route names, and answers Forbidden otherwise.
RolesGuard(roles, user) == user.role \in roles

\* The principals whose status requests each handler serves.
StatusCallers(h) ==
  IF h = "s1" THEN {u \in Users : u._id \in {"ad", "V1", "u1"}}
              ELSE {u \in Users : u._id \in {"ad", "V1", "V2"}}

\* The ids a request may name: every Order, every SubOrder, and no document.
TargetIds == DOMAIN orders \cup DOMAIN subOrders \cup {MissingId}

\* Variant: a document loaded as delivered is never written again.
save_deliveredIsFinal(coll, loaded, status) ==
  IF status = loaded.status \/ loaded.status = DELIVERED
    THEN coll ELSE [coll EXCEPT ![loaded._id].status = status]

\* Document.save() of a loaded document whose status was assigned: only a
\* modified path is written, so assigning the loaded value writes nothing.
save(coll, loaded, status) ==
  IF status = loaded.status THEN coll ELSE [coll EXCEPT ![loaded._id].status = status]

\* Lines 505-511: NotFound and Forbidden are rethrown, anything else is
\* wrapped.
classifyStatus(error) ==
  IF error \in {"NotFoundException", "ForbiddenException"}
    THEN error ELSE "InternalServerErrorException"

\* The call to updateOrderStatus ends: with the record it returns, or with
\* the exception of the catch block, whose message names the error caught.
Return(h, id) ==
  /\ ures' = [ures EXCEPT ![h] = [status |-> "ok", returned |-> id, message |-> "none"]]
  /\ uloc' = [uloc EXCEPT ![h] = NoULoc]
  /\ upc' = [upc EXCEPT ![h] = "done"]
Fail(h, error) ==
  /\ ures' = [ures EXCEPT ![h] = [status |-> classifyStatus(error), returned |-> MissingId,
                                   message |-> error]]
  /\ uloc' = [uloc EXCEPT ![h] = NoULoc]
  /\ upc' = [upc EXCEPT ![h] = "done"]

\* Controller lines 43-52: the guards, then the call of the service.
updateStatus(h) ==
  /\ upc[h] = "idle"
  /\ \E id \in TargetIds, status \in OrderStatus, user \in StatusCallers(h) :
       /\ ureq' = [ureq EXCEPT ![h] = [id |-> id, status |-> status, user |-> user]]
       /\ IF RolesGuard(updateStatus_Roles, user)
            THEN /\ upc' = [upc EXCEPT ![h] = "exists"]
                 /\ UNCHANGED <<uloc, ures>>
            ELSE Fail(h, "ForbiddenException")
  /\ UNCHANGED <<store, placement, otherRoutes>>

\* Line 433: orderModel.exists({_id: id}).
update_exists(h) ==
  /\ upc[h] = "exists"
  /\ upc' = [upc EXCEPT ![h] = IF ureq[h].id \in DOMAIN orders THEN "findOrder" ELSE "findSubOrder"]
  /\ UNCHANGED <<store, placement, otherRoutes, ureq, uloc, ures>>

\* Variant: the parent branch without the check of the vendor role.
update_findOrder_noRoleCheck(h) ==
  /\ upc[h] = "findOrder"
  /\ IF ureq[h].id \notin DOMAIN orders
       THEN Fail(h, "NotFoundException")
       ELSE LET order == orders[ureq[h].id] IN
            /\ uloc' = [uloc EXCEPT ![h].order = [_id |-> order._id, status |-> order.status],
                                    ![h].ids = SelectSeq(order.subOrders,
                                                 LAMBDA id : id \in DOMAIN subOrders)]
            /\ upc' = [upc EXCEPT ![h] = "saveOrder"]
            /\ ures' = ures
  /\ UNCHANGED <<store, placement, otherRoutes, ureq>>

\* Lines 437-449: findById(id).populate('subOrders'), the role check, and the
\* assignment of the status to the loaded document.
update_findOrder(h) ==
  /\ upc[h] = "findOrder"
  /\ IF ureq[h].id \notin DOMAIN orders
       THEN Fail(h, "NotFoundException")
       ELSE IF ureq[h].user.role = VENDOR
         THEN Fail(h, "ForbiddenException")
         ELSE LET order == orders[ureq[h].id] IN
              /\ uloc' = [uloc EXCEPT ![h].order = [_id |-> order._id, status |-> order.status],
                                      ![h].ids = SelectSeq(order.subOrders,
                                                   LAMBDA id : id \in DOMAIN subOrders)]
              /\ upc' = [upc EXCEPT ![h] = "saveOrder"]
              /\ ures' = ures
  /\ UNCHANGED <<store, placement, otherRoutes, ureq>>

\* Variant: the save of an order as cancelled gives the units of its lines
\* back to the stock.
update_saveOrder_restock(h) ==
  /\ upc[h] = "saveOrder"
  /\ orders' = save(orders, uloc[h].order, ureq[h].status)
  /\ products' =
       IF ureq[h].status = CANCELLED /\ uloc[h].order.status # CANCELLED
         THEN LET items == orders[ureq[h].id].items IN
              [id \in DOMAIN products |->
                 IF \E k \in 1..Len(items) : items[k].productId = id
                   THEN [products[id] EXCEPT !.stock =
                           @ + items[CHOOSE k \in 1..Len(items) : items[k].productId = id].quantity]
                   ELSE products[id]]
         ELSE products
  /\ IF Len(uloc[h].ids) > 0
       THEN /\ upc' = [upc EXCEPT ![h] = "updateMany"]
            /\ UNCHANGED <<uloc, ures>>
       ELSE Return(h, ureq[h].id)
  /\ UNCHANGED <<subOrders, placement, otherRoutes, ureq>>

\* Lines 450-453: order.save(); without sub-orders the order is returned.
update_saveOrder(h) ==
  /\ upc[h] = "saveOrder"
  /\ orders' = save(orders, uloc[h].order, ureq[h].status)
  /\ IF Len(uloc[h].ids) > 0
       THEN /\ upc' = [upc EXCEPT ![h] = "updateMany"]
            /\ UNCHANGED <<uloc, ures>>
       ELSE Return(h, ureq[h].id)
  /\ UNCHANGED <<products, subOrders, placement, otherRoutes, ureq>>

\* A sequence without its k-th element.
Without(seq, k) == SubSeq(seq, 1, k - 1) \o SubSeq(seq, k + 1, Len(seq))

\* Lines 454-460: updateMany({_id: {$in: ids}}, {$set: {status}}) writes the
\* matching documents one at a time, in no fixed order; after the last one
\* the order is returned.
update_updateMany(h) ==
  /\ upc[h] = "updateMany"
  /\ \E k \in 1..Len(uloc[h].ids) :
       LET id == uloc[h].ids[k] IN
       /\ subOrders' = IF id \in DOMAIN subOrders
                         THEN [subOrders EXCEPT ![id].status = ureq[h].status]
                         ELSE subOrders
       /\ IF Len(uloc[h].ids) = 1
            THEN Return(h, ureq[h].id)
            ELSE /\ uloc' = [uloc EXCEPT ![h].ids = Without(@, k)]
                 /\ UNCHANGED <<upc, ures>>
  /\ UNCHANGED <<products, orders, placement, otherRoutes, ureq>>

\* Variant: a vendor may set the sub-order of any vendor.
update_findSubOrder_noOwnership(h) ==
  /\ upc[h] = "findSubOrder"
  /\ IF ureq[h].id \notin DOMAIN subOrders
       THEN Fail(h, "NotFoundException")
       ELSE LET subOrder == subOrders[ureq[h].id] IN
            /\ uloc' = [uloc EXCEPT ![h].subOrder =
                          [_id |-> subOrder._id, status |-> subOrder.status],
                        ![h].parentOrder = [NoDoc EXCEPT !._id = subOrder.parentOrderId]]
            /\ upc' = [upc EXCEPT ![h] = "saveSubOrder"]
            /\ ures' = ures
  /\ UNCHANGED <<store, placement, otherRoutes, ureq>>

\* Variant: the result of findById is used without the null check, and
\* reading vendorId of null throws a TypeError.
update_findSubOrder_noNullCheck(h) ==
  /\ upc[h] = "findSubOrder"
  /\ IF ureq[h].id \notin DOMAIN subOrders
       THEN Fail(h, "TypeError")
       ELSE LET subOrder == subOrders[ureq[h].id] IN
            IF ureq[h].user.role = VENDOR /\ subOrder.vendorId # ureq[h].user._id
              THEN Fail(h, "ForbiddenException")
              ELSE /\ uloc' = [uloc EXCEPT ![h].subOrder =
                                 [_id |-> subOrder._id, status |-> subOrder.status],
                               ![h].parentOrder = [NoDoc EXCEPT !._id = subOrder.parentOrderId]]
                   /\ upc' = [upc EXCEPT ![h] = "saveSubOrder"]
                   /\ ures' = ures
  /\ UNCHANGED <<store, placement, otherRoutes, ureq>>

\* Lines 463-474: subOrderModel.findById(id), the ownership check, and the
\* assignment of the status to the loaded document.
update_findSubOrder(h) ==
  /\ upc[h] = "findSubOrder"
  /\ IF ureq[h].id \notin DOMAIN subOrders
       THEN Fail(h, "NotFoundException")
       ELSE LET subOrder == subOrders[ureq[h].id] IN
            IF ureq[h].user.role = VENDOR /\ subOrder.vendorId # ureq[h].user._id
              THEN Fail(h, "ForbiddenException")
              ELSE /\ uloc' = [uloc EXCEPT ![h].subOrder =
                                 [_id |-> subOrder._id, status |-> subOrder.status],
                               ![h].parentOrder = [NoDoc EXCEPT !._id = subOrder.parentOrderId]]
                   /\ upc' = [upc EXCEPT ![h] = "saveSubOrder"]
                   /\ ures' = ures
  /\ UNCHANGED <<store, placement, otherRoutes, ureq>>

\* Variant: the save of a sub-order writes the status to every sub-order of
\* the same parent.
update_saveSubOrder_cascade(h) ==
  /\ upc[h] = "saveSubOrder"
  /\ subOrders' = [id \in DOMAIN subOrders |->
                     IF subOrders[id].parentOrderId = uloc[h].parentOrder._id
                       THEN [subOrders[id] EXCEPT !.status = ureq[h].status]
                       ELSE subOrders[id]]
  /\ upc' = [upc EXCEPT ![h] = "findParent"]
  /\ UNCHANGED <<products, orders, placement, otherRoutes, ureq, uloc, ures>>

\* Line 475: subOrder.save().
update_saveSubOrder(h) ==
  /\ upc[h] = "saveSubOrder"
  /\ subOrders' = save(subOrders, uloc[h].subOrder, ureq[h].status)
  /\ upc' = [upc EXCEPT ![h] = "findParent"]
  /\ UNCHANGED <<products, orders, placement, otherRoutes, ureq, uloc, ures>>

\* Lines 478-481: orderModel.findById(subOrder.parentOrderId).
update_findParent(h) ==
  /\ upc[h] = "findParent"
  /\ IF uloc[h].parentOrder._id \notin DOMAIN orders
       THEN Fail(h, "NotFoundException")
       ELSE /\ uloc' = [uloc EXCEPT ![h].parentOrder.status = orders[uloc[h].parentOrder._id].status]
            /\ upc' = [upc EXCEPT ![h] = "findSiblings"]
            /\ ures' = ures
  /\ UNCHANGED <<store, placement, otherRoutes, ureq>>

\* Lines 484-486: the sub-orders whose parentOrderId is the parent's id.
allSubOrdersOf(coll, parentId) == {d \in {coll[id] : id \in DOMAIN coll} : d.parentOrderId = parentId}

\* Variant: the parent follows an only sub-order and never several.
adoptsStatus_onlyChild(allSubOrders, status) == Cardinality(allSubOrders) = 1

\* Lines 489-500: whether the parent takes the new status: always with one
\* sub-order, with several only when every one of them has it.
adoptsStatus(allSubOrders, status) ==
  \/ Cardinality(allSubOrders) = 1
  \/ Cardinality(allSubOrders) > 1 /\ \A so \in allSubOrders : so.status = status

\* Lines 484-503: find the siblings and decide; without a change of the
\* parent the sub-order is returned.
update_findSiblings(h) ==
  /\ upc[h] = "findSiblings"
  /\ IF adoptsStatus(allSubOrdersOf(subOrders, uloc[h].parentOrder._id), ureq[h].status)
       THEN /\ upc' = [upc EXCEPT ![h] = "saveParent"]
            /\ UNCHANGED <<uloc, ures>>
       ELSE Return(h, ureq[h].id)
  /\ UNCHANGED <<store, placement, otherRoutes, ureq>>

\* Lines 491-492 and 497-498, then 503: parentOrder.save(); the sub-order is
\* returned.
update_saveParent(h) ==
  /\ upc[h] = "saveParent"
  /\ orders' = save(orders, uloc[h].parentOrder, ureq[h].status)
  /\ Return(h, ureq[h].id)
  /\ UNCHANGED <<products, subOrders, placement, otherRoutes, ureq>>

\* A storage operation of updateOrderStatus fails for a reason of the
\* infrastructure and throws a driver error; what was written stays written.
StatusStoragePoints ==
  {"exists", "findOrder", "saveOrder", "updateMany", "findSubOrder", "saveSubOrder",
   "findParent", "findSiblings", "saveParent"}
update_storageFailure(h) ==
  /\ upc[h] \in StatusStoragePoints
  /\ Fail(h, "MongoServerError")
  /\ UNCHANGED <<store, placement, otherRoutes, ureq>>

NextStatus ==
  \E h \in StatusProcs :
    \/ updateStatus(h)
    \/ update_exists(h)
    \/ update_findOrder(h)
    \/ update_saveOrder(h)
    \/ update_updateMany(h)
    \/ update_findSubOrder(h)
    \/ update_saveSubOrder(h)
    \/ update_findParent(h)
    \/ update_findSiblings(h)
    \/ update_saveParent(h)
    \/ update_storageFailure(h)

SpecStatus == InitStatus /\ [][NextStatus]_vars


\* ------------------------------------ OrdersService.findOne and findAll
\* populate('subOrders'): each id of the list is replaced by the SubOrder it
\* names. The second level (vendorId, select name email) and the admin's
\* populate of customerId replace an id by the user's name and email, which
\* users of this model do not carry.
populateSubOrders(order, subColl) ==
  [order EXCEPT !.subOrders =
     [k \in 1..Len(order.subOrders) |->
        IF order.subOrders[k] \in DOMAIN subColl THEN subColl[order.subOrders[k]] ELSE Null]]

\* populate('parentOrderId'): the id is replaced by the Order it names.
populateParent(sub, orderColl) ==
  [sub EXCEPT !.parentOrderId =
     IF sub.parentOrderId \in DOMAIN orderColl THEN orderColl[sub.parentOrderId] ELSE Null]

\* Model.findOne(filter): the first matching document in insertion order, or
\* null. ids is the set of ids of the documents that match the filter.
findOneIn(coll, ids) ==
  IF ids = {} THEN Null
  ELSE coll[CHOOSE id \in ids : \A other \in ids : id.n <= other.n]

Found(model, doc) == [status |-> "ok", model |-> model, returned |-> doc]
NotFoundException(id) == [status |-> "NotFoundException", model |-> "none", returned |-> [NoDoc EXCEPT !._id = id]]

\* Variant: the customer's query without the customerId filter.
findOne_firstQuery_noCustomerFilter(orderColl, subColl, id, user) ==
  CASE user.role = CUSTOMER ->
         LET order == findOneIn(orderColl, {o \in DOMAIN orderColl : o = id})
         IN  IF order = Null THEN Null ELSE Found("Order", populateSubOrders(order, subColl))
    [] user.role = VENDOR ->
         LET order == findOneIn(subColl, {s \in DOMAIN subColl : s = id /\ subColl[s].vendorId = user._id})
         IN  IF order = Null THEN Null ELSE Found("SubOrder", populateParent(order, orderColl))
    [] user.role = ADMIN ->
         LET order == findOneIn(orderColl, {o \in DOMAIN orderColl : o = id})
         IN  IF order = Null THEN Null ELSE Found("Order", populateSubOrders(order, subColl))
    [] OTHER -> Null

\* The first query of findOne, by role (lines 356-368, 372-377, 388-402).
findOne_firstQuery(orderColl, subColl, id, user) ==
  CASE user.role = CUSTOMER ->
         LET order == findOneIn(orderColl, {o \in DOMAIN orderColl : o = id /\ orderColl[o].customerId = user._id})
         IN  IF order = Null THEN Null ELSE Found("Order", populateSubOrders(order, subColl))
    [] user.role = VENDOR ->
         LET order == findOneIn(subColl, {s \in DOMAIN subColl : s = id /\ subColl[s].vendorId = user._id})
         IN  IF order = Null THEN Null ELSE Found("SubOrder", populateParent(order, orderColl))
    [] user.role = ADMIN ->
         LET order == findOneIn(orderColl, {o \in DOMAIN orderColl : o = id})
         IN  IF order = Null THEN Null ELSE Found("Order", populateSubOrders(order, subColl))
    [] OTHER -> Null

\* Whether findOne asks a second query after an empty first one (379, 404).
findOne_hasSecondQuery(user) == user.role \in {VENDOR, ADMIN}

\* Variant: a vendor who names a parent order is given the parent.
findOne_secondQuery_parent(orderColl, subColl, id, user) ==
  CASE user.role = VENDOR ->
         LET order == findOneIn(subColl, {s \in DOMAIN subColl :
                                            subColl[s].parentOrderId = id /\ subColl[s].vendorId = user._id})
         IN  IF order = Null THEN Null ELSE Found("Order", populateSubOrders(orderColl[id], subColl))
    [] user.role = ADMIN ->
         LET order == findOneIn(subColl, {s \in DOMAIN subColl : s = id})
         IN  IF order = Null THEN Null ELSE Found("SubOrder", populateParent(order, orderColl))
    [] OTHER -> Null

\* Variant: the vendor's second query without the vendorId filter.
findOne_secondQuery_anyVendor(orderColl, subColl, id, user) ==
  CASE user.role = VENDOR ->
         LET order == findOneIn(subColl, {s \in DOMAIN subColl : subColl[s].parentOrderId = id})
         IN  IF order = Null THEN Null ELSE Found("SubOrder", populateParent(order, orderColl))
    [] user.role = ADMIN ->
         LET order == findOneIn(subColl, {s \in DOMAIN subColl : s = id})
         IN  IF order = Null THEN Null ELSE Found("SubOrder", populateParent(order, orderColl))
    [] OTHER -> Null

\* The second query of findOne, by role (lines 379-385, 404-410).
findOne_secondQuery(orderColl, subColl, id, user) ==
  CASE user.role = VENDOR ->
         LET order == findOneIn(subColl, {s \in DOMAIN subColl :
                                            subColl[s].parentOrderId = id /\ subColl[s].vendorId = user._id})
         IN  IF order = Null THEN Null ELSE Found("SubOrder", populateParent(order, orderColl))
    [] user.role = ADMIN ->
         LET order == findOneIn(subColl, {s \in DOMAIN subColl : s = id})
         IN  IF order = Null THEN Null ELSE Found("SubOrder", populateParent(order, orderColl))
    [] OTHER -> Null

\* GET /orders/:id (controller lines 37-41: any authenticated user).
findOne_begin ==
  /\ qpc = "idle"
  /\ \E id \in TargetIds, user \in Users :
       qreq' = [NoQReq EXCEPT !.route = "findOne", !.id = id, !.user = user]
  /\ qpc' = "findOne:first"
  /\ UNCHANGED <<store, placement, statusUpdate, qloc, qres>>

\* Lines 354-402 and 412-416: the first query; a customer gets no second one.
findOne_first ==
  /\ qpc = "findOne:first"
  /\ LET order == findOne_firstQuery(orders, subOrders, qreq.id, qreq.user)
     IN  IF order # Null
           THEN qpc' = "done" /\ qres' = order
           ELSE IF findOne_hasSecondQuery(qreq.user)
                  THEN qpc' = "findOne:second" /\ UNCHANGED qres
                  ELSE qpc' = "done" /\ qres' = NotFoundException(qreq.id)
  /\ UNCHANGED <<store, placement, statusUpdate, qreq, qloc>>

\* Lines 379-385, 404-410 and 412-416.
findOne_second ==
  /\ qpc = "findOne:second"
  /\ LET order == findOne_secondQuery(orders, subOrders, qreq.id, qreq.user)
     IN  qres' = IF order # Null THEN order ELSE NotFoundException(qreq.id)
  /\ qpc' = "done"
  /\ UNCHANGED <<store, placement, statusUpdate, qreq, qloc>>

\* Lines 417-425: a query that throws anything else than NotFoundException.
findOne_storageFailure ==
  /\ qpc \in {"findOne:first", "findOne:second"}
  /\ qpc' = "done"
  /\ qres' = [status |-> "InternalServerErrorException", model |-> "none", returned |-> NoDoc]
  /\ UNCHANGED <<store, placement, statusUpdate, qreq, qloc>>

\* QueryOrdersDto: both fields optional ("none" stands for an absent field).
QueryOrdersDto == [status : OrderStatus \cup {"none"}, vendorId : {"none", "V1", "V2"}]

\* `if (status) query.status = status` applied to a document.
matchesStatus(doc, query) == query.status = "none" \/ doc.status = query.status

\* Model.find(filter) with its populate: the documents that match. The sort
\* on createdAt orders the list and selects nothing, so the result is kept
\* as the set of its documents.
findOrders(orderColl, subColl, ids) == {populateSubOrders(orderColl[o], subColl) : o \in ids}
findSubOrders(orderColl, subColl, ids) == {populateParent(subColl[s], orderColl) : s \in ids}

\* Variant: a vendor's list honours the vendorId of the query.
findAll_query_vendorFilter(orderColl, subColl, query, user) ==
  CASE user.role = CUSTOMER ->
         Found("Order", findOrders(orderColl, subColl,
           {o \in DOMAIN orderColl : orderColl[o].customerId = user._id /\ matchesStatus(orderColl[o], query)}))
    [] user.role = VENDOR ->
         Found("SubOrder", findSubOrders(orderColl, subColl,
           {s \in DOMAIN subColl :
              /\ subColl[s].vendorId = (IF query.vendorId # "none" THEN query.vendorId ELSE user._id)
              /\ matchesStatus(subColl[s], query)}))
    [] user.role = ADMIN /\ query.vendorId # "none" ->
         Found("SubOrder", findSubOrders(orderColl, subColl,
           {s \in DOMAIN subColl : subColl[s].vendorId = query.vendorId /\ matchesStatus(subColl[s], query)}))
    [] user.role = ADMIN /\ query.vendorId = "none" ->
         Found("Order", findOrders(orderColl, subColl,
           {o \in DOMAIN orderColl : matchesStatus(orderColl[o], query)}))
    [] OTHER -> Found("none", {})

\* Lines 262-342: the one query of findAll, by role.
findAll_query(orderColl, subColl, query, user) ==
  CASE user.role = CUSTOMER ->
         Found("Order", findOrders(orderColl, subColl,
           {o \in DOMAIN orderColl : orderColl[o].customerId = user._id /\ matchesStatus(orderColl[o], query)}))
    [] user.role = VENDOR ->
         Found("SubOrder", findSubOrders(orderColl, subColl,
           {s \in DOMAIN subColl : subColl[s].vendorId = user._id /\ matchesStatus(subColl[s], query)}))
    [] user.role = ADMIN /\ query.vendorId # "none" ->
         Found("SubOrder", findSubOrders(orderColl, subColl,
           {s \in DOMAIN subColl : subColl[s].vendorId = query.vendorId /\ matchesStatus(subColl[s], query)}))
    [] user.role = ADMIN /\ query.vendorId = "none" ->
         Found("Order", findOrders(orderColl, subColl,
           {o \in DOMAIN orderColl : matchesStatus(orderColl[o], query)}))
    [] OTHER -> Found("none", {})

\* GET /orders (controller lines 31-35: any authenticated user).
findAll_begin ==
  /\ qpc = "idle"
  /\ \E query \in QueryOrdersDto, user \in Users :
       qreq' = [NoQReq EXCEPT !.route = "findAll", !.user = user, !.query = query]
  /\ qpc' = "findAll:find"
  /\ UNCHANGED <<store, placement, statusUpdate, qloc, qres>>

\* Lines 263-342: the query runs and its documents are returned.
findAll_find ==
  /\ qpc = "findAll:find"
  /\ qres' = findAll_query(orders, subOrders, qreq.query, qreq.user)
  /\ qpc' = "done"
  /\ UNCHANGED <<store, placement, statusUpdate, qreq, qloc>>

\* Lookups next to one call of updateOrderStatus, on the orders of Placed.
NextLookup ==
  \/ findOne_begin
  \/ findOne_first
  \/ findOne_second
  \/ findOne_storageFailure
  \/ findAll_begin
  \/ findAll_find
  \/ updateStatus("s1")
  \/ update_exists("s1")
  \/ update_findOrder("s1")
  \/ update_saveOrder("s1")
  \/ update_updateMany("s1")
  \/ update_findSubOrder("s1")
  \/ update_saveSubOrder("s1")
  \/ update_findParent("s1")
  \/ update_findSiblings("s1")
  \/ update_saveParent("s1")
  \/ update_storageFailure("s1")

SpecLookup == InitStatus /\ [][NextLookup]_vars


\* ------------------------------------------------ ProductsService.update
\* UpdateProductDto: every field optional ("none" and Absent stand for an
\* absent field); category is not a field of the products of this model.
NewName == {"z"}
NewPrice == {7}
NewStock == {0, 3}
UpdateProductDto ==
  [name : NewName \cup {"none"}, price : NewPrice \cup {Absent}, stock : NewStock \cup {Absent}]

\* findByIdAndUpdate(id, updateProductDto): the fields present in the dto
\* are set on the document.
applyUpdate(product, dto) ==
  [product EXCEPT !.name = IF dto.name = "none" THEN @ ELSE dto.name,
                  !.price = IF dto.price = Absent THEN @ ELSE dto.price,
                  !.stock = IF dto.stock = Absent THEN @ ELSE dto.stock]

\* ProductsController lines 199-200: @Roles(UserRole.VENDOR, UserRole.ADMIN).
products_update_Roles == {VENDOR, ADMIN}

QFail(error) == [status |-> error, model |-> "none", returned |-> NoDoc]

\* PATCH /products/:id (ProductsController lines 198-207).
products_update_begin ==
  /\ qpc = "idle"
  /\ \E productId \in RequestIds, dto \in UpdateProductDto, user \in Users :
       /\ qreq' = [NoQReq EXCEPT !.route = "products.update", !.productId = productId,
                                 !.dto = dto, !.user = user]
       /\ IF RolesGuard(products_update_Roles, user)
            THEN qpc' = "update:findOne" /\ UNCHANGED qres
            ELSE qpc' = "done" /\ qres' = QFail("ForbiddenException")
  /\ UNCHANGED <<store, placement, statusUpdate, qloc>>

\* ProductsService.update lines 85-96: findOne(id) and the ownership checks.
products_update_findOne ==
  /\ qpc = "update:findOne"
  /\ IF qreq.productId \notin DOMAIN products
       THEN qpc' = "done" /\ qres' = QFail("NotFoundException")
       ELSE IF \/ (qreq.user.role = VENDOR /\ products[qreq.productId].vendorId # qreq.user._id)
               \/ qreq.user.role \notin {ADMIN, VENDOR}
         THEN qpc' = "done" /\ qres' = QFail("ForbiddenException")
         ELSE qpc' = "update:write" /\ UNCHANGED qres
  /\ UNCHANGED <<store, placement, statusUpdate, qreq, qloc>>

\* The line items of a document with the name and the price of a product
\* brought up to date.
recaptured(doc, product) ==
  [doc EXCEPT !.items = [k \in 1..Len(doc.items) |->
     IF doc.items[k].productId = product._id
       THEN [doc.items[k] EXCEPT !.name = product.name, !.price = product.price]
       ELSE doc.items[k]]]

\* Variant: the update of a product is carried over to the line items of the
\* orders and sub-orders that hold it.
products_update_write_cascade ==
  /\ qpc = "update:write"
  /\ IF qreq.productId \in DOMAIN products
       THEN LET updatedProduct == applyUpdate(products[qreq.productId], qreq.dto)
            IN  /\ products' = [products EXCEPT ![qreq.productId] = updatedProduct]
                /\ orders' = [o \in DOMAIN orders |-> recaptured(orders[o], updatedProduct)]
                /\ subOrders' = [k \in DOMAIN subOrders |-> recaptured(subOrders[k], updatedProduct)]
                /\ qres' = [status |-> "ok", model |-> "Product", returned |-> updatedProduct]
       ELSE /\ qres' = QFail("NotFoundException")
            /\ UNCHANGED store
  /\ qpc' = "done"
  /\ UNCHANGED <<placement, statusUpdate, qreq, qloc>>

\* ProductsService.update lines 98-106: findByIdAndUpdate(id, dto, {new: true}).
products_update_write ==
  /\ qpc = "update:write"
  /\ IF qreq.productId \in DOMAIN products
       THEN LET updatedProduct == applyUpdate(products[qreq.productId], qreq.dto)
            IN  /\ products' = [products EXCEPT ![qreq.productId] = updatedProduct]
                /\ qres' = [status |-> "ok", model |-> "Product", returned |-> updatedProduct]
       ELSE /\ qres' = QFail("NotFoundException")
            /\ UNCHANGED products
  /\ qpc' = "done"
  /\ UNCHANGED <<orders, subOrders, placement, statusUpdate, qreq, qloc>>

\* A change of the catalog after the placements of Placed.
NextCatalog ==
  \/ products_update_begin
  \/ products_update_findOne
  \/ products_update_write

SpecCatalog == InitStatus /\ [][NextCatalog]_vars

\* What happens to the orders of Placed afterwards: one call of
\* updateOrderStatus next to one update of a product.
NextAfterPlacement ==
  \/ products_update_begin
  \/ products_update_findOne
  \/ products_update_write
  \/ updateStatus("s1")
  \/ update_exists("s1")
  \/ update_findOrder("s1")
  \/ update_saveOrder("s1")
  \/ update_updateMany("s1")
  \/ update_findSubOrder("s1")
  \/ update_saveSubOrder("s1")
  \/ update_findParent("s1")
  \/ update_findSiblings("s1")
  \/ update_saveParent("s1")
  \/ update_storageFailure("s1")

SpecAfterPlacement == InitStatus /\ [][NextAfterPlacement]_vars

\* ------------------------------------------------------------- properties
Failed(p) == res[p].status \notin {"none", "ok"}
Succeeded(p) == res[p].status = "ok"

\* Documents of the committed collections that belong to the call of p.
OwnSubOrders(p) == {k \in DOMAIN subOrders : subOrders[k].parentOrderId = OrderId(p)}

\* Total quantity of product id over a sequence of lines.
RECURSIVE quantityOf(_, _)
quantityOf(items, id) ==
  IF items = <<>> THEN 0
  ELSE (IF Head(items).productId = id THEN Head(items).quantity ELSE 0)
         + quantityOf(Tail(items), id)

\* Total quantity of product id over the committed orders with ids in S.
RECURSIVE committedQuantity(_, _)
committedQuantity(S, id) ==
  IF S = {} THEN 0
  ELSE LET o == CHOOSE o \in S : TRUE
       IN  quantityOf(orders[o].items, id) + committedQuantity(S \ {o}, id)

\* A step taken by handler p.
StepOf(p) == pc'[p] # pc[p] \/ loc'[p] # loc[p]

\* C1: atomicity of placeOrder. Every step of a call other than its successful
\* commit leaves the orders, the sub-orders and every product's stock as they
\* were, and once a call has failed (at the role check, the product snapshot,
\* the stock validation, a save, a stock decrement or the commit) the
\* committed collections hold no order and no sub-order of that call and its
\* transaction holds no pending write.
C1_Atomicity ==
  [][\A p \in Procs :
       /\ (StepOf(p) /\ ~(pc[p] = "commit" /\ res'[p].status = "ok"))
            => (products' = products /\ orders' = orders /\ subOrders' = subOrders)
       /\ (res'[p].status \notin {"none", "ok"})
            => /\ OrderId(p) \notin DOMAIN orders'
               /\ \A k \in DOMAIN subOrders' : subOrders'[k].parentOrderId # OrderId(p)
               /\ tx'[p].orders = EmptyFn
               /\ tx'[p].subOrders = EmptyFn
               /\ tx'[p].products = EmptyFn]_vars

\* A call failed at a stock decrement after its order and sub-orders had been
\* saved in the transaction, while the other call committed.
C1_Witness ==
  \E p, q \in Procs :
    /\ Failed(p) /\ res[p].detail.msg \in {"ReserveFailed", "WriteConflict"}
    /\ Len(req[p].items) = 2
    /\ Succeeded(q)
    /\ products # InitProducts

\* C2: no oversell. For every product the quantities of the committed orders
\* add up to at most the stock the product started with.
C2_NoOversell ==
  \A id \in ProductIds : committedQuantity(DOMAIN orders, id) <= InitProducts[id].stock

\* Two calls raced for a product: one committed and took the stock down to 0,
\* the other was turned away at its reservation of that product.
C2_Witness ==
  \E p, q \in Procs : \E id \in ProductIds :
    /\ Succeeded(p) /\ quantityOf(req[p].items, id) > 0
    /\ products[id].stock = 0
    /\ Failed(q) /\ res[q].detail.msg \in {"ReserveFailed", "WriteConflict"}
    /\ res[q].detail.ids = <<id>>

\* C4: the stock of every product is at least 0, in the committed collection
\* and in the pending writes of every transaction.
C4_StockNonNegative ==
  /\ \A id \in DOMAIN products : products[id].stock >= 0
  /\ \A p \in Procs : \A id \in DOMAIN tx[p].products : tx[p].products[id].stock >= 0

\* A product was sold out and a later reservation of it was refused because
\* the stock did not cover the quantity.
C4_Witness ==
  \E p \in Procs : \E id \in ProductIds :
    /\ products[id].stock = 0 /\ InitProducts[id].stock > 0
    /\ Failed(p) /\ res[p].detail.msg = "ReserveFailed" /\ res[p].detail.ids = <<id>>


\* The single line asking for one unit of the product whose stock starts at 1.
LastUnit == <<[productId |-> "B", quantity |-> 1]>>

\* C3: last-unit race. Two calls each ask for one unit of a product with
\* stock 1, both pass the snapshot check and no storage operation fails for a
\* reason of the infrastructure: exactly one commits, and the other is refused
\* at the reservation with the insufficient-stock BadRequestException, leaves
\* no order or sub-order of its own, and the stock is 0.
C3_LastUnitRace ==
  \A p, q \in Procs :
    ( /\ p # q
      /\ pc[p] = "done" /\ pc[q] = "done"
      /\ req[p].items = LastUnit /\ req[q].items = LastUnit
      /\ req[p].user.role = CUSTOMER /\ req[q].user.role = CUSTOMER
      /\ res[p].detail.msg \notin {"ProductUnavailable", "InsufficientStock", "StorageFailure"}
      /\ res[q].detail.msg \notin {"ProductUnavailable", "InsufficientStock", "StorageFailure"} )
    => \E w, l \in {p, q} :
         /\ w # l
         /\ Succeeded(w)
         /\ res[l].status = "BadRequestException"
         /\ res[l].detail.msg = "ReserveFailed"
         /\ OrderId(l) \notin DOMAIN orders
         /\ OwnSubOrders(l) = {}
         /\ products["B"].stock = 0

\* Sub-order documents named by the list of an order, in list order.
subOrderDocs(order) == [k \in 1..Len(order.subOrders) |-> subOrders[order.subOrders[k]]]

RECURSIVE lineTotal(_)
lineTotal(items) ==
  IF items = <<>> THEN 0
  ELSE Head(items).price * Head(items).quantity + lineTotal(Tail(items))

RECURSIVE amountOver(_)
amountOver(S) ==
  IF S = {} THEN 0
  ELSE LET k == CHOOSE k \in S : TRUE IN subOrders[k].amount + amountOver(S \ {k})

C7_StockConservation ==
  [][\A p \in Procs :
       (pc[p] = "commit" /\ res'[p].status = "ok")
         => /\ DOMAIN products' = DOMAIN products
            /\ \A id \in DOMAIN products :
                 /\ products'[id].stock = products[id].stock - quantityOf(req[p].items, id)
                 /\ InitProducts[id].stock =
                      products'[id].stock + committedQuantity(DOMAIN orders, id)
                                          + quantityOf(req[p].items, id)]_vars

\* The scenario of the specification: product A (vendor V1, price 10) with
\* quantity 2 and product B (vendor V2, price 20, stock 1) with quantity 1 are
\* ordered; the order totals 40 with sub-orders of 20 and 20, and the stocks
\* went down by 2 and by 1, B's to 0.
C7_Witness ==
  \E p \in Procs :
    /\ Succeeded(p)
    /\ req[p].items = <<[productId |-> "A", quantity |-> 2], [productId |-> "B", quantity |-> 1]>>
    /\ orders[OrderId(p)].totalAmount = 40
    /\ subOrderDocs(orders[OrderId(p)])[1].amount = 20
    /\ subOrderDocs(orders[OrderId(p)])[2].amount = 20
    /\ products["A"].stock = InitProducts["A"].stock - 2
    /\ products["B"].stock = 0
    /\ products["C"].stock = InitProducts["C"].stock

\* Vendors of a sequence of items, as a set.
vendorsOf(items) == {items[k].vendorId : k \in 1..Len(items)}

\* C8: partition correctness. For every committed order the items are the
\* cart lines in cart order, each with the vendor of its product; the listed
\* sub-orders are exactly the sub-orders that name the order as parent; there
\* is one sub-order per vendor of the cart and none for another vendor; and
\* the items of each sub-order are the order's items of that vendor, each once
\* and in cart order.
C8_PartitionCorrect ==
  \A p \in Procs :
    OrderId(p) \in DOMAIN orders =>
      LET order == orders[OrderId(p)]
          subs == subOrderDocs(order)
      IN  /\ Len(order.items) = Len(req[p].items)
          /\ \A k \in 1..Len(order.items) :
               /\ order.items[k].productId = req[p].items[k].productId
               /\ order.items[k].quantity = req[p].items[k].quantity
               /\ order.items[k].vendorId = InitProducts[order.items[k].productId].vendorId
          /\ {order.subOrders[k] : k \in 1..Len(order.subOrders)} = OwnSubOrders(p)
          /\ \A j, k \in 1..Len(subs) : j # k => subs[j].vendorId # subs[k].vendorId
          /\ {subs[k].vendorId : k \in 1..Len(subs)} = vendorsOf(order.items)
          /\ \A k \in 1..Len(subs) :
               subs[k].items =
                 SelectSeq(order.items, LAMBDA item : item.vendorId = subs[k].vendorId)

\* A committed order of two products of one vendor holds both in a single
\* sub-order, next to a committed order of the other handler.
C8_Witness ==
  \E p, q \in Procs :
    /\ p # q
    /\ OrderId(p) \in DOMAIN orders /\ OrderId(q) \in DOMAIN orders
    /\ Len(orders[OrderId(p)].subOrders) = 1
    /\ Len(orders[OrderId(p)].items) = 2
    /\ orders[OrderId(p)].items[1].productId # orders[OrderId(p)].items[2].productId
    /\ Len(subOrders[orders[OrderId(p)].subOrders[1]].items) = 2

\* Requested product ids that name no product or a product with stock 0 in
\* the committed collection.
unavailableIds(items) ==
  {items[k].productId : k \in
     {j \in 1..Len(items) : \/ items[j].productId \notin DOMAIN products
                            \/ products[items[j].productId].stock = 0}}

\* Indexes of the lines that ask for more than the committed stock.
overAsking(items) ==
  {k \in 1..Len(items) : items[k].quantity > products[items[k].productId].stock}

\* The validation step of handler p, when the read itself did not fail.
Validates(p) ==
  pc[p] = "fetch" /\ pc'[p] # "fetch" /\ loc'[p].detail.msg # "StorageFailure"

NothingPending(t) == t.orders = EmptyFn /\ t.subOrders = EmptyFn /\ t.products = EmptyFn

\* C9: ProductUnavailable. When the cart names a product that does not exist
\* or has stock 0 as the products are read, the call throws
\* BadRequestException for products not found or out of stock naming exactly
\* those ids; the exception reaches the caller unchanged; and neither step
\* changes an order, a sub-order or the stock of any product, nor leaves a
\* write pending.
C9_ProductUnavailable ==
  [][\A p \in Procs :
       /\ (Validates(p) /\ unavailableIds(req[p].items) # {})
            => /\ pc'[p] = "catch"
               /\ loc'[p].error = "BadRequestException"
               /\ loc'[p].detail.msg = "ProductUnavailable"
               /\ {loc'[p].detail.ids[k] : k \in 1..Len(loc'[p].detail.ids)}
                    = unavailableIds(req[p].items)
               /\ NothingPending(tx'[p])
               /\ products' = products /\ orders' = orders /\ subOrders' = subOrders
       /\ (pc[p] = "catch" /\ pc'[p] # "catch" /\ loc[p].detail.msg = "ProductUnavailable")
            => /\ res'[p] = [status |-> "BadRequestException", detail |-> loc[p].detail]
               /\ NothingPending(tx'[p])
               /\ OrderId(p) \notin DOMAIN orders'
               /\ products' = products /\ orders' = orders /\ subOrders' = subOrders]_vars

\* The scenario of the specification: the last unit of B was sold, then a cart
\* of A and B is refused naming B, and the stock of A is what it was.
C9_Witness ==
  \E p, q \in Procs :
    /\ Succeeded(q) /\ req[q].items = LastUnit
    /\ req[p].items = <<[productId |-> "A", quantity |-> 2], [productId |-> "B", quantity |-> 1]>>
    /\ res[p].status = "BadRequestException"
    /\ res[p].detail.msg = "ProductUnavailable"
    /\ res[p].detail.ids = <<"B">>
    /\ products["A"].stock = InitProducts["A"].stock
    /\ products["B"].stock = 0

\* C10: InsufficientStock at validation. When every requested product exists
\* with stock above 0 and some line asks for more than the stock read, the
\* call throws BadRequestException for not enough stock naming the product,
\* the available stock and the requested quantity of the first such line of
\* the cart; the exception reaches the caller unchanged; and no order,
\* sub-order or stock is changed and no write is left pending.
C10_InsufficientAtValidation ==
  [][\A p \in Procs :
       /\ (Validates(p) /\ unavailableIds(req[p].items) = {} /\ overAsking(req[p].items) # {})
            => LET k == CHOOSE k \in overAsking(req[p].items) :
                          \A j \in overAsking(req[p].items) : k <= j
                   line == req[p].items[k]
               IN  /\ pc'[p] = "catch"
                   /\ loc'[p].error = "BadRequestException"
                   /\ loc'[p].detail = Err("InsufficientStock", <<>>,
                                           products[line.productId].name,
                                           products[line.productId].stock,
                                           line.quantity)
                   /\ NothingPending(tx'[p])
                   /\ products' = products /\ orders' = orders /\ subOrders' = subOrders
       /\ (pc[p] = "catch" /\ pc'[p] # "catch" /\ loc[p].detail.msg = "InsufficientStock")
            => /\ res'[p] = [status |-> "BadRequestException", detail |-> loc[p].detail]
               /\ NothingPending(tx'[p])
               /\ OrderId(p) \notin DOMAIN orders'
               /\ products' = products /\ orders' = orders /\ subOrders' = subOrders]_vars

\* A cart whose two lines both ask for more than the stock was refused for
\* its first line.
C10_Witness ==
  \E p \in Procs :
    /\ req[p].items = <<[productId |-> "B", quantity |-> 2], [productId |-> "C", quantity |-> 2]>>
    /\ res[p].status = "BadRequestException"
    /\ res[p].detail = Err("InsufficientStock", <<>>, "b", 1, 2)
    /\ products = InitProducts


\* C20: a call of create by a principal whose role is not customer ends in
\* its first step with ForbiddenException: no transaction is started for it,
\* and no Order, SubOrder or stock is changed.
C20_NonCustomerForbidden ==
  [][\A p \in Procs :
       (pc[p] = "idle" /\ pc'[p] # "idle" /\ req'[p].user.role # CUSTOMER)
         => /\ pc'[p] = "done"
            /\ res'[p].status = "ForbiddenException"
            /\ tx'[p] = NoTx
            /\ store' = store]_vars

C20_Witness ==
  /\ req["r1"].user.role = VENDOR /\ res["r1"].status = "ForbiddenException"
  /\ req["r2"].user.role = ADMIN /\ res["r2"].status = "ForbiddenException"
  /\ store = <<InitProducts, EmptyFn, EmptyFn>>


\* ------------------------------------------------ properties of setStatus
SubBranch == {"findSubOrder", "saveSubOrder", "findParent", "findSiblings", "saveParent"}
ParentBranch == {"findOrder", "saveOrder", "updateMany"}
InProgress(h) == upc[h] \notin {"idle", "done"}
Completes(h) == InProgress(h) /\ upc'[h] = "done" /\ ures'[h].status = "ok"
statusOf(coll) == [id \in DOMAIN coll |-> coll[id].status]

\* The calls of updateOrderStatus run one after another: a step is taken
\* only while no other call is in progress.
NextStatusSerial ==
  \E h \in StatusProcs :
    /\ \A g \in StatusProcs \ {h} : ~InProgress(g)
    /\ \/ updateStatus(h)
       \/ update_exists(h)
       \/ update_findOrder(h)
       \/ update_saveOrder(h)
       \/ update_updateMany(h)
       \/ update_findSubOrder(h)
       \/ update_saveSubOrder(h)
       \/ update_findParent(h)
       \/ update_findSiblings(h)
       \/ update_saveParent(h)
       \/ update_storageFailure(h)

SpecStatusSerial == InitStatus /\ [][NextStatusSerial]_vars

\* C11: a call of updateOrderStatus on a sub-order whose parent has two or
\* more sub-orders leaves the orders as they are until it completes; when it
\* completes, the parent has the new status if every sub-order of the parent
\* has it, and is unchanged otherwise.
C11_Unanimity ==
  [][\A h \in StatusProcs :
       (upc[h] \in SubBranch /\ upc'[h] # upc[h] /\ ureq[h].id \in DOMAIN subOrders)
         => LET pid == subOrders[ureq[h].id].parentOrderId
                all == allSubOrdersOf(subOrders', pid)
            IN  Cardinality(all) >= 2
                  => IF Completes(h) /\ \A so \in all : so.status = ureq[h].status
                       THEN orders'[pid].status = ureq[h].status
                       ELSE orders' = orders]_vars


\* The calls that work on an order or on one of its sub-orders.
Targets(h, orderId) ==
  \/ ureq[h].id = orderId
  \/ ureq[h].id \in DOMAIN subOrders /\ subOrders[ureq[h].id].parentOrderId = orderId
NoStorageFailure == \A h \in StatusProcs : ures[h].status # "InternalServerErrorException"

\* C12: an order with exactly one sub-order has the status of that sub-order
\* whenever no call of updateOrderStatus on the order or on the sub-order is
\* in progress (calls that a storage failure cut short are left aside).
C12_SingleChild ==
  \A id \in DOMAIN orders :
    LET all == allSubOrdersOf(subOrders, id) IN
    (/\ Cardinality(all) = 1
     /\ NoStorageFailure
     /\ \A h \in StatusProcs : ~(InProgress(h) /\ Targets(h, id)))
      => \A so \in all : orders[id].status = so.status


\* C13: when a call of updateOrderStatus on an order completes, the order
\* and every sub-order of it have the new status.
C13_ParentOverride ==
  [][\A h \in StatusProcs :
       (upc[h] \in ParentBranch /\ Completes(h))
         => /\ orders'[ureq[h].id].status = ureq[h].status
            /\ \A so \in allSubOrdersOf(subOrders', ureq[h].id) : so.status = ureq[h].status]_vars


\* Two calls that set the two sub-orders of the order of r1 to one status.
SiblingCalls ==
  /\ ureq["s1"].id = SubOrderId("r1", 1)
  /\ ureq["s2"].id = SubOrderId("r1", 2)
  /\ ureq["s1"].status = ureq["s2"].status

\* C14: once two calls of updateOrderStatus that set the two sub-orders of
\* one order to the same status s have both completed, in whatever order
\* their steps ran, the order has status s.
C14_NoLostReconciliation ==
  (/\ SiblingCalls
   /\ \A h \in StatusProcs : upc[h] = "done" /\ ures[h].status = "ok")
    => orders[OrderId("r1")].status = ureq["s1"].status

\* Both calls have written their sub-order before either read the siblings,
\* and the first of them has set the parent.
C14_Witness ==
  /\ SiblingCalls
  /\ ureq["s1"].status = SHIPPED
  /\ upc["s1"] = "done" /\ ures["s1"].status = "ok"
  /\ upc["s2"] = "saveParent"
  /\ orders[OrderId("r1")].status = SHIPPED


\* The statuses of all orders and sub-orders, and what one call of
\* updateOrderStatus that runs alone makes of them.
StatusState == [o |-> statusOf(orders), s |-> statusOf(subOrders)]
serialCall(st, call) ==
  IF ~RolesGuard(updateStatus_Roles, call.user) THEN st
  ELSE IF call.id \in DOMAIN orders
    THEN IF call.user.role = VENDOR THEN st
         ELSE [o |-> [st.o EXCEPT ![call.id] = call.status],
               s |-> [id \in DOMAIN st.s |->
                        IF subOrders[id].parentOrderId = call.id THEN call.status ELSE st.s[id]]]
  ELSE IF call.id \in DOMAIN subOrders
    THEN IF call.user.role = VENDOR /\ subOrders[call.id].vendorId # call.user._id THEN st
         ELSE LET pid == subOrders[call.id].parentOrderId
                  subs == [st.s EXCEPT ![call.id] = call.status]
                  all == {[_id |-> id, status |-> subs[id]] :
                            id \in {x \in DOMAIN subs : subOrders[x].parentOrderId = pid}}
              IN  [o |-> IF adoptsStatus(all, call.status)
                           THEN [st.o EXCEPT ![pid] = call.status] ELSE st.o,
                   s |-> subs]
  ELSE st
PlacedStatus ==
  [o |-> [id \in DOMAIN orders |-> PENDING], s |-> [id \in DOMAIN subOrders |-> PENDING]]

\* C15: when two calls of updateOrderStatus on one order and/or its
\* sub-orders have both ended (none of them cut short by a storage failure),
\* the statuses are those that the two calls leave when one runs after the
\* other, in one of the two orders.
C15_Serializable ==
  (/\ \A h \in StatusProcs : upc[h] = "done"
   /\ NoStorageFailure
   /\ \E id \in DOMAIN orders : \A h \in StatusProcs : Targets(h, id))
    => \/ StatusState = serialCall(serialCall(PlacedStatus, ureq["s1"]), ureq["s2"])
       \/ StatusState = serialCall(serialCall(PlacedStatus, ureq["s2"]), ureq["s1"])


\* A step of the call that handler h serves.
StepsOf(h) == upc'[h] # upc[h]
StorageFailed(r) == r.status = "InternalServerErrorException" /\ r.message = "MongoServerError"
Ended(h, outcomes) ==
  upc'[h] = "done" => ures'[h].status \in outcomes \/ StorageFailed(ures'[h])
OnSubOrder(h) == ureq[h].id \in DOMAIN subOrders
Owns(h) == subOrders[ureq[h].id].vendorId = ureq[h].user._id

\* C16: a call of updateOrderStatus on a sub-order by a vendor who is not the
\* vendor of the sub-order never gets past the ownership check: it changes
\* no document and ends with ForbiddenException (or with the internal error
\* of a failed storage operation); a call by the owning vendor or by an admin
\* passes the check and ends with the sub-order returned (or with that
\* internal error).
C16_VendorOwnership ==
  [][\A h \in StatusProcs :
       (StepsOf(h) /\ InProgress(h) /\ OnSubOrder(h))
         => IF ureq[h].user.role = VENDOR /\ ~Owns(h)
              THEN /\ store' = store
                   /\ upc'[h] \in {"findSubOrder", "done"}
                   /\ Ended(h, {"ForbiddenException"})
              ELSE /\ Ended(h, {"ok"})
                   /\ upc[h] = "findSubOrder" /\ upc'[h] # "done" => upc'[h] = "saveSubOrder"]_vars

\* V2 was refused on the sub-order of V1 that V1 has set.
C16_Witness ==
  /\ ureq["s2"].id = SubOrderId("r1", 1) /\ ureq["s2"].user._id = "V2"
  /\ ures["s2"].status = "ForbiddenException"
  /\ ureq["s1"].id = SubOrderId("r1", 1) /\ ureq["s1"].user._id = "V1"
  /\ ureq["s1"].status = SHIPPED /\ ures["s1"].status = "ok"
  /\ subOrders[SubOrderId("r1", 1)].status = SHIPPED

\* C17: a call of updateOrderStatus by a vendor with the id of an order never
\* gets past the role check, whichever sub-orders of the order the vendor
\* owns: it changes no document and ends with ForbiddenException (or with the
\* internal error of a failed storage operation).
C17_VendorOnParent ==
  [][\A h \in StatusProcs :
       (StepsOf(h) /\ InProgress(h) /\ ureq[h].id \in DOMAIN orders
          /\ ureq[h].user.role = VENDOR)
         => /\ store' = store
            /\ upc'[h] \in {"findOrder", "done"}
            /\ Ended(h, {"ForbiddenException"})]_vars

\* V1 was refused on the order whose only sub-order is V1's and on the order
\* of which V1 has one of two sub-orders.
C17_Witness ==
  /\ ureq["s1"].id = OrderId("r2") /\ ureq["s1"].user._id = "V1"
  /\ ureq["s2"].id = OrderId("r1") /\ ureq["s2"].user._id = "V1"
  /\ \A so \in allSubOrdersOf(subOrders, OrderId("r2")) : so.vendorId = "V1"
  /\ {so.vendorId : so \in allSubOrdersOf(subOrders, OrderId("r1"))} = {"V1", "V2"}
  /\ \A h \in StatusProcs : ures[h].status = "ForbiddenException"
  /\ StatusState = PlacedStatus


\* C18: a request to set a status by a customer is refused before the
\* service is called and changes nothing; a step that changes the status of
\* an order is a step of an admin's call, and a step that changes the status
\* of a sub-order is a step of a call of an admin or of a call of the owning
\* vendor on that sub-order.
C18_CustomerNeverChanges ==
  [][\A h \in StatusProcs :
       StepsOf(h)
         => /\ ureq'[h].user.role = CUSTOMER
                 => /\ store' = store
                    /\ upc'[h] = "done"
                    /\ ures'[h].status = "ForbiddenException"
            /\ statusOf(orders') # statusOf(orders)
                 => \/ ureq[h].user.role = ADMIN
                    \/ ureq[h].user.role = VENDOR /\ OnSubOrder(h) /\ Owns(h)
            /\ statusOf(subOrders') # statusOf(subOrders)
                 => \/ ureq[h].user.role = ADMIN
                    \/ /\ ureq[h].user.role = VENDOR /\ OnSubOrder(h) /\ Owns(h)
                       /\ \A id \in DOMAIN subOrders :
                            subOrders'[id].status # subOrders[id].status => id = ureq[h].id]_vars

\* A customer was refused on an order while an admin's call on it went on.
C18_Witness ==
  /\ ureq["s1"].user.role = CUSTOMER /\ ureq["s1"].id = OrderId("r1")
  /\ ures["s1"].status = "ForbiddenException"
  /\ ureq["s2"].user.role = ADMIN /\ ureq["s2"].id = OrderId("r1")
  /\ ureq["s2"].status = CANCELLED /\ ures["s2"].status = "ok"
  /\ orders[OrderId("r1")].status = CANCELLED

\* C19: a call of updateOrderStatus with an id that names neither an order
\* nor a sub-order changes no document and ends with NotFoundException (or
\* with the internal error of a failed storage operation).
C19_NotFound ==
  [][\A h \in StatusProcs :
       (StepsOf(h) /\ InProgress(h) /\ ureq[h].id \notin DOMAIN orders \cup DOMAIN subOrders)
         => /\ store' = store
            /\ upc'[h] \in {"findSubOrder", "done"}
            /\ Ended(h, {"NotFoundException"})]_vars

\* An admin and a vendor both asked for an id that names no document.
C19_Witness ==
  /\ ureq["s1"].id = MissingId /\ ureq["s1"].user.role = ADMIN
  /\ ureq["s2"].id = MissingId /\ ureq["s2"].user.role = VENDOR
  /\ \A h \in StatusProcs : ures[h].status = "NotFoundException"
  /\ StatusState = PlacedStatus


\* ------------------------------------------------ malformed carts
\* C21: a call of create by a customer with an empty cart ends at once with
\* BadRequestException, before any storage operation, and leaves no order.
C21_EmptyCartRejected ==
  \A p \in Procs :
    (pc[p] # "idle" /\ req[p].user.role = CUSTOMER /\ req[p].items = <<>>)
      => /\ pc[p] = "done"
         /\ res[p].status = "BadRequestException"
         /\ OrderId(p) \notin DOMAIN orders

\* C22: a call of create by a customer with a cart that names a product on
\* more than one line ends at once with BadRequestException, before any
\* storage operation, and no committed order has two line items with the
\* same productId.
C22_DuplicateLinesRejected ==
  /\ \A p \in Procs :
       (/\ pc[p] # "idle" /\ req[p].user.role = CUSTOMER
        /\ \E j, k \in 1..Len(req[p].items) :
             j # k /\ req[p].items[j].productId = req[p].items[k].productId)
         => pc[p] = "done" /\ res[p].status = "BadRequestException"
  /\ \A o \in DOMAIN orders :
       \A j, k \in 1..Len(orders[o].items) :
         orders[o].items[j].productId = orders[o].items[k].productId => j = k

\* ------------------------------------------------------------ lookups
LookupDone(route) == qpc = "done" /\ qreq.route = route
LookupAnswered(route) == LookupDone(route) /\ qres.status # "InternalServerErrorException"
Ids(docs) == {d._id : d \in docs}
OrdersOfCustomer(user) == {o \in DOMAIN orders : orders[o].customerId = user._id}
SubOrdersOfVendor(user) == {s \in DOMAIN subOrders : subOrders[s].vendorId = user._id}

\* C23: a call of findOne by a customer that returns a document returns the
\* Order named by the id, and that Order has the caller as its customerId;
\* for the id of another customer's Order, and for the id of any SubOrder,
\* the call ends with NotFoundException.
C23_CustomerScope ==
  (LookupAnswered("findOne") /\ qreq.user.role = CUSTOMER)
    => /\ qres.status = "ok" =>
            /\ qres.model = "Order"
            /\ qres.returned._id = qreq.id
            /\ qres.returned.customerId = qreq.user._id
            /\ qreq.id \in OrdersOfCustomer(qreq.user)
       /\ qreq.id \in DOMAIN orders \ OrdersOfCustomer(qreq.user) => qres = NotFoundException(qreq.id)
       /\ qreq.id \in DOMAIN subOrders => qres = NotFoundException(qreq.id)

\* A customer has asked for a sub-order of their own order and got
\* NotFoundException.
C23_Witness ==
  /\ LookupDone("findOne") /\ qreq.user.role = CUSTOMER
  /\ qreq.id \in DOMAIN subOrders
  /\ subOrders[qreq.id].parentOrderId \in OrdersOfCustomer(qreq.user)
  /\ qres = NotFoundException(qreq.id)

\* C24: a call of findOne by a vendor that returns a document returns a
\* SubOrder whose vendorId is the caller: for the id of a sub-order of the
\* caller, that sub-order; for the id of an Order in which the caller has a
\* sub-order, that sub-order and not the Order; for every other id the call
\* ends with NotFoundException.
C24_VendorScope ==
  (LookupAnswered("findOne") /\ qreq.user.role = VENDOR)
    => LET own == SubOrdersOfVendor(qreq.user)
           within == {s \in own : subOrders[s].parentOrderId = qreq.id}
       IN  /\ qres.status = "ok" =>
                 /\ qres.model = "SubOrder"
                 /\ qres.returned._id \in own
                 /\ qres.returned.vendorId = qreq.user._id
           /\ qreq.id \in own => qres.status = "ok" /\ qres.returned._id = qreq.id
           /\ within # {} => qres.status = "ok" /\ qres.returned._id \in within
           /\ (qreq.id \notin own /\ within = {}) => qres = NotFoundException(qreq.id)

\* A vendor has named an Order in which another vendor has a sub-order too,
\* and was given their own sub-order of it.
C24_Witness ==
  /\ LookupDone("findOne") /\ qreq.user.role = VENDOR
  /\ qreq.id \in DOMAIN orders
  /\ Len(orders[qreq.id].subOrders) > 1
  /\ qres.status = "ok" /\ qres.model = "SubOrder"
  /\ qres.returned.vendorId = qreq.user._id
  /\ qres.returned.parentOrderId._id = qreq.id

\* The ids a customer or a vendor may look up: a customer their own orders, a
\* vendor their own sub-orders and the orders that hold one.
InScopeOf(user) ==
  IF user.role = CUSTOMER THEN OrdersOfCustomer(user)
  ELSE SubOrdersOfVendor(user) \cup {subOrders[s].parentOrderId : s \in SubOrdersOfVendor(user)}
Restrict(coll, ids) == [id \in DOMAIN coll \cap ids |-> coll[id]]
\* Both queries of findOne on given collections.
findOne_result(orderColl, subColl, id, user) ==
  LET first == findOne_firstQuery(orderColl, subColl, id, user)
      second == findOne_secondQuery(orderColl, subColl, id, user)
  IN  IF first # Null THEN first
      ELSE IF findOne_hasSecondQuery(user) /\ second # Null THEN second
      ELSE NotFoundException(id)

\* C25: a call of findOne by a customer or a vendor with an id out of the
\* caller's scope ends with the same NotFoundException whether the id names
\* a record of somebody else or no record: it is the outcome of the same call
\* on the collections without the records that are out of the caller's scope,
\* and of the same call on empty collections.
C25_NoExistenceLeak ==
  (/\ LookupAnswered("findOne") /\ qreq.user.role \in {CUSTOMER, VENDOR}
   /\ qreq.id \notin InScopeOf(qreq.user))
    => /\ qres = NotFoundException(qreq.id)
       /\ qres = findOne_result(Restrict(orders, InScopeOf(qreq.user)),
                                Restrict(subOrders, InScopeOf(qreq.user)), qreq.id, qreq.user)
       /\ qres = findOne_result(EmptyFn, EmptyFn, qreq.id, qreq.user)

\* A vendor has named an Order that exists and holds no sub-order of theirs,
\* and got NotFoundException.
C25_Witness ==
  /\ LookupDone("findOne") /\ qreq.user.role = VENDOR
  /\ qreq.id \in DOMAIN orders
  /\ qreq.id \notin InScopeOf(qreq.user)
  /\ qres = NotFoundException(qreq.id)

\* C26: the query of findAll returns, for a customer, exactly the Orders with
\* the caller as customerId; for a vendor, exactly the SubOrders with the
\* caller as vendorId; for an admin, every Order, or with a vendorId in the
\* query exactly the SubOrders of that vendor; with a status in the query,
\* only the documents of that status; a vendorId in the query of a customer
\* or of a vendor changes nothing.
C26_ListScope ==
  [][ (qpc = "findAll:find" /\ qpc' = "done") =>
        LET user == qreq.user
            query == qreq.query
            wanted(coll, ids) == {id \in ids : query.status # "none" => coll[id].status = query.status}
        IN  /\ qres'.status = "ok"
            /\ \A d \in qres'.returned : query.status # "none" => d.status = query.status
            /\ user.role = CUSTOMER =>
                 qres'.model = "Order" /\ Ids(qres'.returned) = wanted(orders, OrdersOfCustomer(user))
            /\ user.role = VENDOR =>
                 qres'.model = "SubOrder" /\ Ids(qres'.returned) = wanted(subOrders, SubOrdersOfVendor(user))
            /\ (user.role = ADMIN /\ query.vendorId = "none") =>
                 qres'.model = "Order" /\ Ids(qres'.returned) = wanted(orders, DOMAIN orders)
            /\ (user.role = ADMIN /\ query.vendorId # "none") =>
                 /\ qres'.model = "SubOrder"
                 /\ Ids(qres'.returned) =
                      wanted(subOrders, {s \in DOMAIN subOrders : subOrders[s].vendorId = query.vendorId})
            /\ user.role # ADMIN =>
                 qres' = findAll_query(orders, subOrders, [query EXCEPT !.vendorId = "none"], user)
    ]_vars

\* A vendor has listed with the vendorId of another vendor and a status in
\* the query, after a status has changed, and holds sub-orders of their own:
\* some sub-order of theirs has another status and is not in the list.
C26_Witness ==
  /\ LookupDone("findAll") /\ qreq.user.role = VENDOR
  /\ qreq.query.vendorId \notin {"none", qreq.user._id}
  /\ qreq.query.status # "none"
  /\ qres.status = "ok" /\ qres.returned # {}
  /\ Ids(qres.returned) \subseteq SubOrdersOfVendor(qreq.user)
  /\ Ids(qres.returned) # SubOrdersOfVendor(qreq.user)

\* ------------------------------------------------ referential integrity
\* C27: in every state every SubOrder's parentOrderId names an Order of the
\* collection, and every Order's subOrders list holds, once each, exactly the
\* ids of the SubOrders whose parentOrderId is that Order; no step changes or
\* removes the parentOrderId of a SubOrder; and a SubOrder enters the
\* collection only at the commit of the call of create that made it.
C27_ReferentialIntegrity ==
  [][ /\ \A s \in DOMAIN subOrders' : subOrders'[s].parentOrderId \in DOMAIN orders'
      /\ \A o \in DOMAIN orders' :
           /\ {orders'[o].subOrders[k] : k \in 1..Len(orders'[o].subOrders)} =
                {s \in DOMAIN subOrders' : subOrders'[s].parentOrderId = o}
           /\ \A j, k \in 1..Len(orders'[o].subOrders) :
                orders'[o].subOrders[j] = orders'[o].subOrders[k] => j = k
      /\ \A s \in DOMAIN subOrders :
           s \in DOMAIN subOrders' /\ subOrders'[s].parentOrderId = subOrders[s].parentOrderId
      /\ \A s \in DOMAIN subOrders' \ DOMAIN subOrders :
           \E p \in Procs :
             /\ pc[p] = "commit" /\ pc'[p] = "done" /\ res'[p].status = "ok"
             /\ s \in DOMAIN tx[p].subOrders
             /\ subOrders'[s].parentOrderId = OrderId(p)
    ]_vars

\* Two placements have committed, one of them with two sub-orders.
C27_Witness ==
  /\ \A p \in Procs : pc[p] = "done" /\ res[p].status = "ok" /\ OrderId(p) \in DOMAIN orders
  /\ \E o \in DOMAIN orders : Len(orders[o].subOrders) = 2
  /\ Cardinality(DOMAIN subOrders) >= 3

\* ------------------------------------------------------ stock writers
\* C28: a step changes the stock of a product only as the commit of a call of
\* create that publishes the conditional decrements of its lines; no step
\* removes a product or changes its stock otherwise.
C28_StockOnlyDecremented ==
  [][ \A id \in DOMAIN products :
        /\ id \in DOMAIN products'
        /\ products'[id].stock # products[id].stock =>
             \E p \in Procs :
               /\ pc[p] = "commit" /\ pc'[p] = "done" /\ res'[p].status = "ok"
               /\ id \in DOMAIN tx[p].products
               /\ products'[id] = tx[p].products[id]
               /\ products'[id].stock < products[id].stock
    ]_vars

\* C29: a call of decrementStock by create is one step; it lowers the stock
\* of the product it names by the quantity it names if and only if the
\* product exists and its stock, as the call sees it, is at least that
\* quantity; otherwise it throws and writes nothing; in both cases nothing
\* but the stock of that product is written. (A call that the storage fails
\* for a reason of the infrastructure is not counted.)
C29_AtomicReserve ==
  [][ \A p \in Procs :
        (pc[p] = "decr" /\ loc'[p] # loc[p] /\ loc'[p].error # "MongoNetworkError") =>
          LET update == loc[p].stockUpdates[loc[p].i]
              id == update.productId
              view == TxView(tx[p])
              covered == id \in DOMAIN view /\ view[id].stock >= update.quantity
              reserved == /\ pc'[p] \in {"decr", "commit"}
                          /\ id \in DOMAIN tx'[p].products
                          /\ tx'[p].products[id] = [view[id] EXCEPT !.stock = @ - update.quantity]
          IN  /\ covered <=> reserved
              /\ ~reserved => pc'[p] = "catch" /\ tx' = tx
              /\ \A other \in DOMAIN tx'[p].products \ {id} :
                   other \in DOMAIN tx[p].products /\ tx'[p].products[other] = tx[p].products[other]
              /\ tx'[p].orders = tx[p].orders /\ tx'[p].subOrders = tx[p].subOrders
              /\ \A q \in Procs \ {p} : tx'[q] = tx[q]
              /\ UNCHANGED store
    ]_vars

\* ------------------------------------------------ failure classification
\* C30: a call of create in which a storage operation fails for a reason of
\* the infrastructure ends with InternalServerErrorException and leaves no
\* order, no sub-order and no pending write of its own; and a call ends with
\* InternalServerErrorException only for that reason: a call turned away for
\* its role, for an unavailable product, for insufficient stock or by a
\* concurrent reservation of the same product ends with another exception.
C30_FailureClassification ==
  \A p \in Procs :
    pc[p] = "done" =>
      /\ res[p].detail.msg = "StorageFailure" =>
           /\ res[p].status = "InternalServerErrorException"
           /\ OrderId(p) \notin DOMAIN orders
           /\ \A k \in DOMAIN subOrders : subOrders[k].parentOrderId # OrderId(p)
           /\ tx[p].state = "aborted"
           /\ tx[p].orders = EmptyFn /\ tx[p].subOrders = EmptyFn /\ tx[p].products = EmptyFn
      /\ res[p].status = "InternalServerErrorException" => res[p].detail.msg = "StorageFailure"

\* ---------------------------------------------------- status transitions
\* The caller of h may change the record that h names: an admin any order or
\* sub-order, a vendor a sub-order of their own.
Authorized(h) ==
  \/ ureq[h].user.role = ADMIN /\ ureq[h].id \in DOMAIN orders \cup DOMAIN subOrders
  \/ ureq[h].user.role = VENDOR /\ OnSubOrder(h) /\ Owns(h)

\* C31: a call of updateOrderStatus by an authorized caller is never turned
\* away, whatever the status of the record and the status asked for: every
\* step of it goes on or ends with the record returned (or with the internal
\* error of a failed storage operation), and its save of the record, for
\* every status a the record has had since it was loaded and every status b
\* asked for, leaves the record with status b.
C31_NoTransitionValidation ==
  [][\A h \in StatusProcs :
       (StepsOf(h) /\ InProgress(h) /\ Authorized(h))
         => /\ Ended(h, {"ok"})
            /\ \A a, b \in OrderStatus :
                 /\ (/\ upc[h] = "saveSubOrder" /\ ureq[h].status = b
                     /\ uloc[h].subOrder.status = a /\ subOrders[ureq[h].id].status = a
                     /\ ~StorageFailed(ures'[h]))
                      => subOrders'[ureq[h].id].status = b
                 /\ (/\ upc[h] = "saveOrder" /\ ureq[h].status = b
                     /\ uloc[h].order.status = a /\ orders[ureq[h].id].status = a
                     /\ ~StorageFailed(ures'[h]))
                      => orders'[ureq[h].id].status = b]_vars

\* A sub-order was set to delivered by its vendor and then back to pending
\* by an admin: both calls returned it and it is pending.
C31_Witness ==
  /\ ureq["s1"].id = SubOrderId("r2", 1) /\ ureq["s1"].user._id = "V1"
  /\ ureq["s1"].status = DELIVERED /\ ures["s1"].status = "ok"
  /\ ureq["s2"].id = SubOrderId("r2", 1) /\ ureq["s2"].user._id = "ad"
  /\ ureq["s2"].status = PENDING /\ ures["s2"].status = "ok"
  /\ subOrders[SubOrderId("r2", 1)].status = PENDING
  /\ orders[OrderId("r2")].status = PENDING

\* C32 as stated: once an order or a sub-order is cancelled, no step gives
\* it another status.
C32_CancelledTerminal ==
  [][ /\ \A id \in DOMAIN orders :
           orders[id].status = CANCELLED => orders'[id].status = CANCELLED
      /\ \A id \in DOMAIN subOrders :
           subOrders[id].status = CANCELLED => subOrders'[id].status = CANCELLED ]_vars

\* The handler h takes the step.
Acts(h) == upc'[h] # upc[h] \/ uloc'[h] # uloc[h]

\* C32: cancelled is a status like the others. A cancelled sub-order leaves
\* that status only by a write of updateOrderStatus that gives it the status
\* the call asks for: the save of a call on it by an admin or by its vendor,
\* or the updateMany of an admin's call on its order. A cancelled order
\* leaves it only by the save of an admin's call on it, or by the save of the
\* parent in a call on one of its sub-orders by an admin or by the vendor of
\* that sub-order.
C32_CancelledLeftByStatusWrite ==
  [][ /\ \A id \in DOMAIN subOrders :
           (subOrders[id].status = CANCELLED /\ subOrders'[id].status # CANCELLED) =>
             \E h \in StatusProcs :
               /\ Acts(h)
               /\ subOrders'[id].status = ureq[h].status
               /\ \/ /\ upc[h] = "saveSubOrder" /\ ureq[h].id = id
                     /\ \/ ureq[h].user.role = ADMIN
                        \/ ureq[h].user.role = VENDOR /\ subOrders[id].vendorId = ureq[h].user._id
                  \/ /\ upc[h] = "updateMany" /\ ureq[h].id = subOrders[id].parentOrderId
                     /\ ureq[h].user.role = ADMIN
      /\ \A id \in DOMAIN orders :
           (orders[id].status = CANCELLED /\ orders'[id].status # CANCELLED) =>
             \E h \in StatusProcs :
               /\ Acts(h)
               /\ orders'[id].status = ureq[h].status
               /\ \/ upc[h] = "saveOrder" /\ ureq[h].id = id /\ ureq[h].user.role = ADMIN
                  \/ /\ upc[h] = "saveParent" /\ OnSubOrder(h)
                     /\ subOrders[ureq[h].id].parentOrderId = id
                     /\ \/ ureq[h].user.role = ADMIN
                        \/ ureq[h].user.role = VENDOR /\ Owns(h) ]_vars

\* An admin cancelled an order with its two sub-orders, and the vendor of one
\* of them has set that sub-order to shipped.
C32_Witness ==
  /\ ureq["s1"].id = OrderId("r1") /\ ureq["s1"].user._id = "ad"
  /\ ureq["s1"].status = CANCELLED /\ ures["s1"].status = "ok"
  /\ ureq["s2"].id = SubOrderId("r1", 2) /\ ureq["s2"].user._id = "V2"
  /\ ureq["s2"].status = SHIPPED /\ ures["s2"].status = "ok"
  /\ subOrders[SubOrderId("r1", 1)].status = CANCELLED
  /\ subOrders[SubOrderId("r1", 2)].status = SHIPPED
  /\ orders[OrderId("r1")].status = CANCELLED

\* ------------------------------------------------- frame after placement
\* A document with its status put aside.
Frame(doc) == [doc EXCEPT !.status = "none"]

\* C33: no step of updateOrderStatus and no update of a product removes an
\* order or a sub-order or changes anything of it but its status: the line
\* items with their captured names and prices, totalAmount, customerId and
\* the sub-order list of every order, and the items, amount, vendorId and
\* parentOrderId of every sub-order, stay as they are.
C33_OnlyStatusChanges ==
  [][ /\ \A o \in DOMAIN orders : o \in DOMAIN orders' /\ Frame(orders'[o]) = Frame(orders[o])
      /\ \A k \in DOMAIN subOrders :
           k \in DOMAIN subOrders' /\ Frame(subOrders'[k]) = Frame(subOrders[k]) ]_vars

\* The price and the name of product A have been changed and the order that
\* holds A has been set to shipped with its sub-orders: its line item still
\* has the price and the name captured at the placement.
C33_Witness ==
  /\ qpc = "done" /\ qres.status = "ok"
  /\ products["A"].price # InitProducts["A"].price
  /\ products["A"].name # InitProducts["A"].name
  /\ orders[OrderId("r1")].status = SHIPPED
  /\ \A k \in DOMAIN subOrders :
       subOrders[k].parentOrderId = OrderId("r1") => subOrders[k].status = SHIPPED
  /\ orders[OrderId("r1")].items[1].productId = "A"
  /\ orders[OrderId("r1")].items[1].price = InitProducts["A"].price
  /\ orders[OrderId("r1")].items[1].name = InitProducts["A"].name
  /\ orders[OrderId("r1")].totalAmount = PlacedOrder("r1").totalAmount

\* ---------------------------------------------------- state at the commit
\* C34: at the commit of a call of create the order of the call and every
\* sub-order of it are in the collections with status pending, and the
\* sub-order list of the order is not empty and holds, once each, the ids of
\* the sub-orders saved for it.
C34_PendingAtCommit ==
  [][\A p \in Procs :
       (pc[p] = "commit" /\ pc'[p] = "done" /\ res'[p].status = "ok") =>
         /\ OrderId(p) \in DOMAIN orders'
         /\ LET order == orders'[OrderId(p)]
                own == {k \in DOMAIN subOrders' : subOrders'[k].parentOrderId = OrderId(p)}
            IN  /\ order.status = PENDING
                /\ \A k \in own : subOrders'[k].status = PENDING
                /\ Len(order.subOrders) > 0
                /\ {order.subOrders[k] : k \in 1..Len(order.subOrders)} = own
                /\ own = DOMAIN tx[p].subOrders
                /\ Cardinality(own) = Len(order.subOrders)]_vars

\* ------------------------------------------------------- vendor order
\* The elements of a sequence in the order of their first occurrence.
RECURSIVE firstEncountered(_, _)
firstEncountered(seq, seen) ==
  IF seq = <<>> THEN <<>>
  ELSE IF Head(seq) \in seen THEN firstEncountered(Tail(seq), seen)
  ELSE <<Head(seq)>> \o firstEncountered(Tail(seq), seen \cup {Head(seq)})

\* C35: the sub-order list of a committed order names the sub-orders of the
\* vendors in the order in which the cart first names a product of each
\* vendor, and the items of each sub-order are the lines of the cart for the
\* products of its vendor, in cart order.
C35_VendorOrderPreserved ==
  \A p \in Procs :
    OrderId(p) \in DOMAIN orders =>
      LET cart == req[p].items
          vendorOfLine == [k \in 1..Len(cart) |-> InitProducts[cart[k].productId].vendorId]
          subs == subOrderDocs(orders[OrderId(p)])
      IN  /\ [k \in 1..Len(subs) |-> subs[k].vendorId] = firstEncountered(vendorOfLine, {})
          /\ \A k \in 1..Len(subs) :
               LET lines == SelectSeq(cart,
                              LAMBDA line : InitProducts[line.productId].vendorId = subs[k].vendorId)
               IN  /\ Len(subs[k].items) = Len(lines)
                   /\ \A j \in 1..Len(lines) :
                        /\ subs[k].items[j].productId = lines[j].productId
                        /\ subs[k].items[j].quantity = lines[j].quantity

\* A cart that names a product of V2 before a product of V1 has committed:
\* the sub-order of V2 is listed first.
C35_Witness ==
  \E p \in Procs :
    /\ OrderId(p) \in DOMAIN orders
    /\ Len(orders[OrderId(p)].subOrders) = 2
    /\ subOrders[orders[OrderId(p)].subOrders[1]].vendorId = "V2"
    /\ subOrders[orders[OrderId(p)].subOrders[2]].vendorId = "V1"
    /\ req[p].items[1].productId = "B"

\* ------------------------------------------------------ stale snapshot
\* The call of p has passed the validation of its cart and has not reached
\* its commit.
Validated(p) == pc[p] \in {"saveOrder", "saveSub", "saveRefs", "decr"}

\* The committed stock of a product no longer covers a line of the cart of p.
Overtaken(p) ==
  \E k \in 1..Len(req[p].items) :
    /\ req[p].items[k].productId \in DOMAIN products
    /\ products[req[p].items[k].productId].stock < req[p].items[k].quantity

\* C36: when the committed stock of a product has dropped below a line of a
\* cart that has passed the validation, the call goes on through its saves as
\* if nothing had happened, is thrown out at a stock decrement and at no
\* other step (a failure of the storage itself apart), never commits, and
\* its catch leaves no order, no sub-order and no stock decrement of its own.
C36_StaleCaughtAtReservation ==
  [][\A p \in Procs :
       /\ (Validated(p) /\ Overtaken(p) /\ StepOf(p)) =>
            /\ pc'[p] \in {"saveSub", "saveRefs", "decr", "catch"}
            /\ (pc'[p] = "catch" /\ loc'[p].error # "MongoNetworkError") => pc[p] = "decr"
            /\ store' = store
       /\ (pc[p] = "catch" /\ pc'[p] = "done") =>
            /\ store' = store
            /\ res'[p].status \notin {"none", "ok"}
            /\ OrderId(p) \notin DOMAIN orders'
            /\ \A k \in DOMAIN subOrders' : subOrders'[k].parentOrderId # OrderId(p)
            /\ tx'[p].state = "aborted" /\ NothingPending(tx'[p])]_vars

\* A cart of two products was thrown out at the decrement of its second
\* line, whose stock the other call had taken after the validation: the
\* stock of its first product is what it was at the start.
C36_Witness ==
  \E p, q \in Procs :
    /\ p # q /\ Succeeded(q) /\ Failed(p)
    /\ Len(req[p].items) = 2
    /\ req[p].items[1].productId # req[p].items[2].productId
    /\ res[p].detail.msg \in {"ReserveFailed", "WriteConflict"}
    /\ res[p].detail.ids = <<req[p].items[2].productId>>
    /\ products[req[p].items[2].productId].stock < req[p].items[2].quantity
    /\ products[req[p].items[1].productId] = InitProducts[req[p].items[1].productId]
    /\ OrderId(p) \notin DOMAIN orders

\* ------------------------------------------------- frame of a sub-order update
\* C37: a step of a status update whose id is a sub-order's leaves the status
\* of every sub-order other than that one and of every order other than its
\* parent as it was; what it writes to the two is the requested status.
C37_SubOrderUpdateFrame ==
  [][\A h \in StatusProcs :
       (Acts(h) /\ OnSubOrder(h)) =>
         LET id == ureq[h].id
             parent == subOrders[id].parentOrderId IN
         /\ DOMAIN subOrders' = DOMAIN subOrders /\ DOMAIN orders' = DOMAIN orders
         /\ \A k \in DOMAIN subOrders \ {id} : subOrders'[k].status = subOrders[k].status
         /\ \A k \in DOMAIN orders \ {parent} : orders'[k].status = orders[k].status
         /\ subOrders'[id].status \in {subOrders[id].status, ureq[h].status}
         /\ parent \in DOMAIN orders =>
              orders'[parent].status \in {orders[parent].status, ureq[h].status}]_vars

\* One call has shipped a sub-order of the order of two vendors and the other
\* has delivered the only sub-order of the other order: the first order and
\* the sibling are still pending, the second order has followed its
\* sub-order.
C37_Witness ==
  /\ \A h \in StatusProcs : upc[h] = "done" /\ ures[h].status = "ok"
  /\ ureq["s1"].id = SubOrderId("r1", 1) /\ ureq["s1"].status = SHIPPED
  /\ ureq["s2"].id = SubOrderId("r2", 1) /\ ureq["s2"].status = DELIVERED
  /\ subOrders[SubOrderId("r1", 1)].status = SHIPPED
  /\ subOrders[SubOrderId("r1", 2)].status = PENDING
  /\ orders[OrderId("r1")].status = PENDING
  /\ subOrders[SubOrderId("r2", 1)].status = DELIVERED
  /\ orders[OrderId("r2")].status = DELIVERED

\* ------------------------------------------------ status updates and the stock
\* C38: no step of a status update writes a product: the catalog after the
\* step is the catalog before it, whatever the status asked for and whether
\* the id is an order's or a sub-order's, so the units an order reserved stay
\* reserved when it is cancelled.
C38_StatusLeavesStock ==
  [][\A h \in StatusProcs : Acts(h) => products' = products]_vars

\* The order of two vendors and the only sub-order of the other order have
\* been cancelled by calls that succeeded, and every product still has the
\* stock the placements left.
C38_Witness ==
  /\ \A h \in StatusProcs : upc[h] = "done" /\ ures[h].status = "ok"
  /\ ureq["s1"].id = OrderId("r1") /\ ureq["s1"].status = CANCELLED
  /\ ureq["s2"].id = SubOrderId("r2", 1) /\ ureq["s2"].status = CANCELLED
  /\ orders[OrderId("r1")].status = CANCELLED
  /\ \A id \in DOMAIN subOrders : subOrders[id].status = CANCELLED
  /\ orders[OrderId("r2")].status = CANCELLED
  /\ \A id \in DOMAIN products : products[id].stock = InitProducts[id].stock - 1

\* -------------------------------------------- several lines for one product
\* The product id stands on more than one line of the cart.
Repeated(items, id) ==
  \E j, k \in 1..Len(items) : j # k /\ items[j].productId = id /\ items[k].productId = id

\* C39: for a call that has ended with a cart of several lines for one
\* product: if its order is committed, the lines of the committed orders for
\* that product add up to no more than the initial stock and the stock is
\* the initial stock less that sum, so not negative; if the lines of the cart
\* add up to more than the initial stock, the call has failed and no order
\* and no sub-order of it is stored, and the stock is lowered by the other
\* committed orders only.
C39_RepeatedLinesReserveTheSum ==
  \A p \in Procs : \A id \in ProductIds :
    (pc[p] = "done" /\ Repeated(req[p].items, id)) =>
      /\ products[id].stock = InitProducts[id].stock - committedQuantity(DOMAIN orders, id)
      /\ products[id].stock >= 0
      /\ Succeeded(p) =>
           /\ OrderId(p) \in DOMAIN orders
           /\ quantityOf(orders[OrderId(p)].items, id) = quantityOf(req[p].items, id)
           /\ quantityOf(req[p].items, id) <= InitProducts[id].stock
      /\ quantityOf(req[p].items, id) > InitProducts[id].stock =>
           /\ Failed(p)
           /\ OrderId(p) \notin DOMAIN orders
           /\ OwnSubOrders(p) = {}
           /\ tx[p].state # "committed"

\* Two lines for one product, each within the stock and together above it:
\* the call went through the validation and was thrown out at a decrement,
\* with the other call not yet begun and the stock as it was.
C39_Witness ==
  \E p \in Procs : \E id \in ProductIds :
    /\ pc[p] = "done" /\ Repeated(req[p].items, id)
    /\ \A k \in 1..Len(req[p].items) : req[p].items[k].quantity <= InitProducts[id].stock
    /\ quantityOf(req[p].items, id) > InitProducts[id].stock
    /\ res[p].status = "BadRequestException" /\ res[p].detail.msg = "ReserveFailed"
    /\ \A q \in Procs \ {p} : pc[q] = "idle"
    /\ products = InitProducts /\ DOMAIN orders = {} /\ DOMAIN subOrders = {}

\* ------------------------------------------------ the end of a transaction
\* How far the call of p has come: its position, and inside a loop the
\* index of the loop.
Position(p) ==
  CASE pc[p] = "idle" -> 0 [] pc[p] = "fetch" -> 1 [] pc[p] = "saveOrder" -> 2
    [] pc[p] = "saveSub" -> 3 [] pc[p] = "saveRefs" -> 4 [] pc[p] = "decr" -> 5
    [] pc[p] = "commit" -> 6 [] pc[p] = "catch" -> 7 [] pc[p] = "done" -> 8
Progress(p) ==
  Position(p) * (MaxCart + 2) + (IF pc[p] \in {"saveSub", "decr"} THEN loc[p].i ELSE 0)

\* The call of p can take a step.
CanStep(p) ==
  CASE pc[p] = "fetch" -> ENABLED create_fetch(p)
    [] pc[p] = "saveOrder" -> ENABLED create_saveOrder(p)
    [] pc[p] = "saveSub" -> ENABLED create_saveSubOrder(p)
    [] pc[p] = "saveRefs" -> ENABLED create_saveRefs(p)
    [] pc[p] = "decr" -> ENABLED create_decrementStock(p)
    [] pc[p] = "commit" -> ENABLED create_commit(p)
    [] pc[p] = "catch" -> ENABLED create_catch(p)
    [] OTHER -> FALSE

\* C40: a call that has opened a transaction is never stuck and never goes
\* back: each of its steps brings it nearer to its end, where the
\* transaction is committed (the call succeeded) or aborted (it failed), not
\* both, and the session is ended; the transaction is open while the call
\* runs; an ended transaction is never opened, committed or aborted again.
C40_TransactionEndsOnce ==
  /\ [](\A p \in Procs : pc[p] \notin {"idle", "done"} => CanStep(p))
  /\ [][\A p \in Procs :
          /\ Progress(p)' >= Progress(p)
          /\ StepOf(p) => Progress(p)' > Progress(p)
          /\ (tx[p].state = "none" /\ tx'[p].state # "none") =>
               pc[p] = "idle" /\ tx'[p].state = "active" /\ tx'[p].session = "open"
          /\ (tx[p].state = "active" /\ tx'[p].state = "committed") =>
               pc[p] = "commit" /\ pc'[p] = "done" /\ res'[p].status = "ok"
          /\ (tx[p].state = "active" /\ tx'[p].state = "aborted") =>
               pc[p] = "catch" /\ pc'[p] = "done" /\ res'[p].status \notin {"none", "ok"}
          /\ tx[p].state = "active" => tx'[p].state \in {"active", "committed", "aborted"}
          /\ tx[p].state \in {"committed", "aborted"} => tx'[p] = tx[p] /\ pc'[p] = "done"
          /\ pc'[p] \notin {"idle", "done"} =>
               tx'[p].state = "active" /\ tx'[p].session = "open"
          /\ (pc'[p] = "done" /\ tx'[p].session # "none") =>
               tx'[p].state \in {"committed", "aborted"} /\ tx'[p].session = "ended"]_vars

\* One call has committed its transaction and the other has aborted its own
\* at the commit, the last step of the try block; both sessions are ended.
C40_Witness ==
  \E p, q \in Procs :
    /\ pc[p] = "done" /\ tx[p].state = "committed" /\ tx[p].session = "ended" /\ Succeeded(p)
    /\ pc[q] = "done" /\ tx[q].state = "aborted" /\ tx[q].session = "ended" /\ Failed(q)
    /\ res[q].detail.msg = "StorageFailure"
    /\ DOMAIN orders = {OrderId(p)}


=============================================================================
